---- MODULE Spec2Model ----
(***************************************************************************)
(* PrivacyTransformService (frontend/lib/services/privacy-transform):      *)
(* credential-derived blinding matrix and AES key, and the lifecycle of    *)
(* the session object that holds them; with it the callers of that         *)
(* service: EmbeddingService and VaultClient (services/embeddings), the    *)
(* preference form, the sign-in page, and the demo's                       *)
(* SimpleEmbeddingService.                                                 *)
(*                                                                         *)
(* Strings are sequences of character codes (charCodeAt), byte arrays are  *)
(* sequences of 0..255.  A JavaScript async method is cut at its awaits:   *)
(* the part up to the first await runs in the caller's step, every         *)
(* continuation is a step of its own, and continuations of different       *)
(* calls interleave (crypto.subtle settles its promises in any order).     *)
(***************************************************************************)
EXTENDS Integers, Sequences, FiniteSets, Bags, TLC

(* ------------------------------ bounds -------------------------------- *)
\* initialize calls that may be in flight at once
MaxInFlight == 2
\* leading entries of the matrix fill that the model carries
MaxFill == 2
\* longest seed string SpecSeed enumerates
MaxSeedLen == 7
\* encryptText results a caller keeps
MaxSealed == 2
\* model loads EmbeddingService may start
MaxLoads == 2
\* EmbeddingService calls that may be suspended at once
MaxPending == 2

(* ------------------------- program constants -------------------------- *)
MATRIX_SIZE == 384
\* SHA-256 digest length in bytes
DigestBytes == 32
\* AES-256 key length in bytes
KeyBytes == 32
LcgMultiplier == 9301
LcgIncrement == 49297
LcgModulus == 233280

\* a field that is null, or holds the value v
NULL == <<>>
Some(v) == <<v>>

(* ------------------------------- state -------------------------------- *)
VARIABLES
  matrix,         \* this.matrix
  encryptionKey,  \* this.encryptionKey (the raw bytes the CryptoKey wraps)
  currentSeed,    \* this.currentSeed
  calls,          \* the initialize calls in flight (a bag of call frames)
  last,           \* the step just taken: operation, argument, outcome
  sinceClear,     \* history: what resolved since the latest clearMatrix
  remembered,     \* history: one earlier derivation, its input and result
  sealed,         \* history: the encryptText calls whose result a caller kept
  sent,           \* the preference-creation requests sent to the backend
  engine,         \* EmbeddingService.engine
  isInitializing, \* EmbeddingService.isInitializing
  initPromise,    \* EmbeddingService.initPromise (the load it is the promise of)
  loads,          \* the _doInitialize calls made so far, each one's promise
  pending         \* the EmbeddingService calls suspended at an await

vars ==
  <<matrix, encryptionKey, currentSeed, calls, last, sinceClear, remembered,
    sealed, sent, engine, isInitializing, initPromise, loads, pending>>

\* the embeddingService singleton and the calls it has in flight
embedder == <<engine, isInitializing, initPromise, loads, pending>>

\* what leaves the session object: results kept, requests sent
wire == <<sealed, sent>>

session == <<matrix, encryptionKey, currentSeed>>

(* ------------------------------ strings ------------------------------- *)
Colon == <<58>>
alice == <<97, 108, 105, 99, 101>>
secret == <<115, 101, 99, 114, 101, 116>>
\* an opaque credentials hash carried by a VaultToken
tokenHash == <<50, 99, 101, 101, 55, 98, 57, 51>>
seed123456 == <<49, 50, 51, 52, 53, 54>>
seed654321 == <<54, 53, 52, 51, 50, 49>>
\* "12345", "12a456", "123456\n", " 23456"
seedShort == <<49, 50, 51, 52, 53>>
seedLetter == <<49, 50, 97, 52, 53, 54>>
seedNewline == <<49, 50, 51, 52, 53, 54, 10>>
seedSpace == <<32, 50, 51, 52, 53, 54>>

(* ---------------------------- validateSeed ---------------------------- *)
\* \d of a JavaScript regular expression: the ASCII digits only
IsDigit(c) == c >= 48 /\ c <= 57

\* \d{n} at position pos of s: the position after the match, or 0 (no match)
RECURSIVE MatchDigits(_, _, _)
MatchDigits(s, pos, n) ==
  IF n = 0 THEN pos
  ELSE IF pos > Len(s) THEN 0
  ELSE IF ~IsDigit(s[pos]) THEN 0
  ELSE MatchDigits(s, pos + 1, n - 1)

\* a $ that also matches before a final line terminator
RegexSixDigitsLaxEnd(seed) ==
  LET end == MatchDigits(seed, 1, 6)
  IN  /\ end # 0
      /\ \/ end = Len(seed) + 1
         \/ (end = Len(seed) /\ seed[end] = 10)

\* /^\d{6}$/.test(seed): ^ anchors at the first character; $ (no m flag)
\* matches only at the very end of the input
RegexSixDigits(seed) ==
  LET end == MatchDigits(seed, 1, 6)
  IN  end # 0 /\ end = Len(seed) + 1

\* a check of the length alone
validateSeedLengthOnly(seed) == Len(seed) = 6

\* private validateSeed(seed)
validateSeed(seed) == RegexSixDigits(seed)

\* static validateSeed(seed)
staticValidateSeed(seed) == RegexSixDigits(seed)

\* the test VaultClient.initializePrivacy applies to privacySeed
vaultClientSeedCheck(privacySeed) == RegexSixDigits(privacySeed)

(* --------------------------- hash chaining ---------------------------- *)
\* UTF-8 of one scalar value
Utf8Char(c) ==
  IF c < 128 THEN <<c>>
  ELSE IF c < 2048 THEN <<192 + (c \div 64), 128 + (c % 64)>>
  ELSE IF c < 65536
       THEN <<224 + (c \div 4096), 128 + ((c \div 64) % 64), 128 + (c % 64)>>
       ELSE <<240 + (c \div 262144), 128 + ((c \div 4096) % 64),
              128 + ((c \div 64) % 64), 128 + (c % 64)>>

\* UTF-16 surrogate code units
IsLeadSurrogate(u) == u >= 55296 /\ u <= 56319
IsTrailSurrogate(u) == u >= 56320 /\ u <= 57343

\* U+FFFD, which stands for what cannot be converted
ReplacementChar == 65533

\* whether a surrogate pair starts at position i of str
PairAt(str, i) ==
  /\ IsLeadSurrogate(str[i])
  /\ i < Len(str)
  /\ IsTrailSurrogate(str[i + 1])

\* the scalar value at position i of str: a pair's code point, U+FFFD for
\* a surrogate that is not part of a pair, else the code unit itself
ScalarAt(str, i) ==
  IF PairAt(str, i)
  THEN 65536 + (str[i] - 55296) * 1024 + (str[i + 1] - 56320)
  ELSE IF IsLeadSurrogate(str[i]) \/ IsTrailSurrogate(str[i])
       THEN ReplacementChar
       ELSE str[i]

\* (Len(out) < 0, h < 0, hi < 0 and lo < 0 below never hold: the tests make
\* TLC evaluate an accumulator at every step instead of building one
\* deferred expression.)
RECURSIVE Utf8From(_, _, _)
Utf8From(str, i, out) ==
  IF i > Len(str) \/ Len(out) < 0 THEN out
  ELSE Utf8From(str, IF PairAt(str, i) THEN i + 2 ELSE i + 1,
                out \o Utf8Char(ScalarAt(str, i)))

\* new TextEncoder().encode(str)
Utf8Encode(str) == Utf8From(str, 1, <<>>)

\* absorbing the message bytes into the digest's chaining value
RECURSIVE Absorb(_, _, _)
Absorb(h, data, i) ==
  IF i > Len(data) \/ h < 0 THEN h
  ELSE Absorb((h * 31 + data[i] + 1) % 65521, data, i + 1)

\* the digest bytes drawn from the final chaining value
RECURSIVE Squeeze(_, _, _)
Squeeze(h, k, out) ==
  IF k > DigestBytes \/ Len(out) < 0 THEN out
  ELSE Squeeze(h, k + 1,
               Append(out, ((h + k) * (2 * k + 7) + (h \div 256)) % 256))

\* crypto.subtle.digest('SHA-256', data): the platform's digest, a fixed
\* function from byte strings to DigestBytes bytes.  The model uses a small
\* mixing function in its place; it separates the inputs the model draws.
Sha256(data) == Squeeze(Absorb(7, data, 1), 1, <<>>)

\* one hexadecimal digit, lowercase
HexDigit(n) == IF n < 10 THEN 48 + n ELSE 87 + n

\* b.toString(16).padStart(2, '0')
HexByte(b) == <<HexDigit(b \div 16), HexDigit(b % 16)>>

RECURSIVE HexFrom(_, _, _)
HexFrom(bytes, i, out) ==
  IF i > Len(bytes) \/ Len(out) < 0 THEN out
  ELSE HexFrom(bytes, i + 1, out \o HexByte(bytes[i]))

\* hashArray.map(b => b.toString(16).padStart(2, '0')).join('')
HexEncode(bytes) == HexFrom(bytes, 1, <<>>)

\* a chaining that leaves the privacy seed out of the hashed string
hashCredentialsUnseeded(username, password, seed) ==
  LET combined == username \o Colon \o password
  IN  HexEncode(Sha256(Utf8Encode(combined)))

\* hashCredentials(username, password, seed)
hashCredentials(username, password, seed) ==
  LET combined == username \o Colon \o password \o Colon \o seed
  IN  HexEncode(Sha256(Utf8Encode(combined)))

\* the hash chaining inside initializeMatrixFromHash
hashFromCredentialsHash(credentialsHash, seed) ==
  LET finalSeed == credentialsHash \o Colon \o seed
  IN  HexEncode(Sha256(Utf8Encode(finalSeed)))

(* ------------------------ seeded matrix fill -------------------------- *)
\* seedValue = ((seedValue << 5) - seedValue + charCode) & 0xffffffff over
\* the characters of seedHash.  The value is kept as two 16-bit limbs
\* <<hi, lo>> of the 32-bit pattern: (x << 5) - x + c is 31 * x + c modulo
\* 2^32.
RECURSIVE FoldLimbs(_, _, _, _)
FoldLimbs(hi, lo, str, i) ==
  IF i > Len(str) \/ hi < 0 \/ lo < 0 THEN <<hi, lo>>
  ELSE LET l == 31 * lo + str[i]
           h == 31 * hi + (l \div 65536)
       IN  FoldLimbs(h % 65536, l % 65536, str, i + 1)

\* the signed 32-bit integer that "& 0xffffffff" leaves
ToInt32(limbs) ==
  IF limbs[1] >= 32768 THEN (limbs[1] - 65536) * 65536 + limbs[2]
  ELSE limbs[1] * 65536 + limbs[2]

FoldSeed(seedHash) == ToInt32(FoldLimbs(0, 0, seedHash, 1))

\* (a * LcgMultiplier) modulo LcgModulus for 0 <= a < LcgModulus, multiplied
\* in two parts (hundreds, then the rest) so that no intermediate product
\* leaves 32 bits
MulMod(a) ==
  ((((a * (LcgMultiplier \div 100)) % LcgModulus) * 100)
     + a * (LcgMultiplier % 100)) % LcgModulus

\* seed = (seed * 9301 + 49297) % 233280, with JavaScript's %: the result
\* takes the sign of the dividend.  seed * 9301 + 49297 is negative exactly
\* when seed <= -6.
LcgStep(seed) ==
  LET m == (MulMod(seed % LcgModulus) + LcgIncrement) % LcgModulus
  IN  IF seed >= -5 \/ m = 0 THEN m ELSE m - LcgModulus

\* the values seed takes over n successive seededRandom() calls; the entry
\* written by a call is seed / 233280 - 0.5
RECURSIVE DrawsFrom(_, _, _)
DrawsFrom(seed, n, out) ==
  IF n = 0 \/ Len(out) < 0 THEN out
  ELSE DrawsFrom(LcgStep(seed), n - 1, Append(out, LcgStep(seed)))

Draws(seed, n) == DrawsFrom(seed, n, <<>>)

\* a generator whose state lives in the instance and is not reseeded: the
\* fill continues from where the matrix now held stopped
generateOrthogonalMatrixCarried(size, seedHash) ==
  [rows |-> size, cols |-> size,
   fill |-> Draws(IF matrix = NULL THEN FoldSeed(seedHash)
                  ELSE matrix[1].fill[MaxFill], MaxFill)]

\* generateOrthogonalMatrix(size, seedHash).  The matrix is carried as its
\* dimensions and the LCG states behind its first MaxFill entries in
\* row-major order: the LCG is a recurrence, so the first state fixes the
\* whole fill, and Gram-Schmidt is a function of the fill.
generateOrthogonalMatrix(size, seedHash) ==
  [rows |-> size, cols |-> size, fill |-> Draws(FoldSeed(seedHash), MaxFill)]

(* -------------------------- key derivation ---------------------------- *)
Take(s, n) == SubSeq(s, 1, IF Len(s) < n THEN Len(s) ELSE n)

\* the value of one hexadecimal digit
HexValue(c) == IF c < 58 THEN c - 48 ELSE c - 87

\* a derivation that decodes the hex string into the bytes it spells
generateEncryptionKeyDecoded(seedHashString) ==
  [i \in 1..(Len(seedHashString) \div 2) |->
     16 * HexValue(seedHashString[2 * i - 1]) + HexValue(seedHashString[2 * i])]

\* generateEncryptionKey(seedHashString): the raw bytes handed to importKey
generateEncryptionKey(seedHashString) ==
  LET keyMaterial == Utf8Encode(Take(seedHashString, 64))
  IN  Take(keyMaterial, KeyBytes)

(* --------------------------- text decoding ---------------------------- *)
\* a UTF-8 continuation byte
IsContinuation(b) == b >= 128 /\ b <= 191

\* the length of the sequence a lead byte announces, 0 for a byte that
\* cannot start one
SequenceLength(b) ==
  IF b < 128 THEN 1
  ELSE IF b >= 194 /\ b <= 223 THEN 2
  ELSE IF b >= 224 /\ b <= 239 THEN 3
  ELSE IF b >= 240 /\ b <= 244 THEN 4
  ELSE 0

\* the second byte a lead byte admits (no overlong forms, no surrogates,
\* nothing above U+10FFFF)
SecondByteOk(lead, b) ==
  IF lead = 224 THEN b >= 160 /\ b <= 191
  ELSE IF lead = 237 THEN b >= 128 /\ b <= 159
  ELSE IF lead = 240 THEN b >= 144 /\ b <= 191
  ELSE IF lead = 244 THEN b >= 128 /\ b <= 143
  ELSE IsContinuation(b)

\* how many bytes from position i belong to one well-formed sequence or to
\* its longest well-formed beginning
Matched(bytes, i) ==
  LET n == SequenceLength(bytes[i])
  IN  IF n <= 1 THEN 1
      ELSE IF i + 1 > Len(bytes) \/ ~SecondByteOk(bytes[i], bytes[i + 1]) THEN 1
      ELSE IF n = 2 THEN 2
      ELSE IF i + 2 > Len(bytes) \/ ~IsContinuation(bytes[i + 2]) THEN 2
      ELSE IF n = 3 THEN 3
      ELSE IF i + 3 > Len(bytes) \/ ~IsContinuation(bytes[i + 3]) THEN 3
      ELSE 4

\* the scalar value decoded at position i: U+FFFD for anything malformed
DecodedAt(bytes, i) ==
  LET n == SequenceLength(bytes[i])
  IN  IF n = 0 \/ Matched(bytes, i) # n THEN ReplacementChar
      ELSE IF n = 1 THEN bytes[i]
      ELSE IF n = 2 THEN (bytes[i] - 192) * 64 + (bytes[i + 1] - 128)
      ELSE IF n = 3
           THEN (bytes[i] - 224) * 4096 + (bytes[i + 1] - 128) * 64
                  + (bytes[i + 2] - 128)
           ELSE (bytes[i] - 240) * 262144 + (bytes[i + 1] - 128) * 4096
                  + (bytes[i + 2] - 128) * 64 + (bytes[i + 3] - 128)

\* the UTF-16 code units of one scalar value
Utf16Char(c) ==
  IF c < 65536 THEN <<c>>
  ELSE <<55296 + ((c - 65536) \div 1024), 56320 + ((c - 65536) % 1024)>>

RECURSIVE DecodeFrom(_, _, _)
DecodeFrom(bytes, i, out) ==
  IF i > Len(bytes) \/ Len(out) < 0 THEN out
  ELSE DecodeFrom(bytes, i + Matched(bytes, i),
                  out \o Utf16Char(DecodedAt(bytes, i)))

\* the UTF-8 encoding of U+FEFF at the start of the input
HasBom(bytes) ==
  Len(bytes) >= 3 /\ bytes[1] = 239 /\ bytes[2] = 187 /\ bytes[3] = 191

\* new TextDecoder().decode(bytes): fatal and ignoreBOM both default to
\* false, so a leading byte order mark is consumed and malformed input
\* decodes to U+FFFD
Utf8Decode(bytes) == DecodeFrom(bytes, IF HasBom(bytes) THEN 4 ELSE 1, <<>>)

(* ------------------------------- base64 ------------------------------- *)
Pad == 61

\* the character of one 6-bit value: A-Z, a-z, 0-9, + and /
Base64Char(n) ==
  IF n < 26 THEN 65 + n
  ELSE IF n < 52 THEN 71 + n
  ELSE IF n < 62 THEN n - 4
  ELSE IF n = 62 THEN 43 ELSE 47

\* the 6-bit value of one character, 64 for a character outside the alphabet
Base64Value(c) ==
  IF c >= 65 /\ c <= 90 THEN c - 65
  ELSE IF c >= 97 /\ c <= 122 THEN c - 71
  ELSE IF c >= 48 /\ c <= 57 THEN c + 4
  ELSE IF c = 43 THEN 62
  ELSE IF c = 47 THEN 63
  ELSE 64

RECURSIVE BtoaFrom(_, _, _)
BtoaFrom(bytes, i, out) ==
  IF i > Len(bytes) \/ Len(out) < 0 THEN out
  ELSE IF i = Len(bytes)
       THEN out \o <<Base64Char(bytes[i] \div 4),
                     Base64Char((bytes[i] % 4) * 16), Pad, Pad>>
  ELSE IF i + 1 = Len(bytes)
       THEN out \o <<Base64Char(bytes[i] \div 4),
                     Base64Char((bytes[i] % 4) * 16 + (bytes[i + 1] \div 16)),
                     Base64Char((bytes[i + 1] % 16) * 4), Pad>>
  ELSE BtoaFrom(bytes, i + 3,
                out \o <<Base64Char(bytes[i] \div 4),
                         Base64Char((bytes[i] % 4) * 16 + (bytes[i + 1] \div 16)),
                         Base64Char((bytes[i + 1] % 16) * 4 + (bytes[i + 2] \div 64)),
                         Base64Char(bytes[i + 2] % 64)>>)

\* btoa(String.fromCharCode(...bytes))
btoa(bytes) == BtoaFrom(bytes, 1, <<>>)

\* the input of atob without the padding it may end with
Unpadded(str) ==
  IF Len(str) % 4 # 0 \/ Len(str) = 0 \/ str[Len(str)] # Pad THEN str
  ELSE IF str[Len(str) - 1] = Pad THEN SubSeq(str, 1, Len(str) - 2)
  ELSE SubSeq(str, 1, Len(str) - 1)

RECURSIVE AtobFrom(_, _, _)
AtobFrom(data, i, out) ==
  IF i > Len(data) \/ Len(out) < 0 THEN out
  ELSE LET a == Base64Value(data[i])
           b == Base64Value(data[i + 1])
       IN  IF i + 1 = Len(data)
           THEN Append(out, a * 4 + (b \div 16))
           ELSE LET c == Base64Value(data[i + 2])
                IN  IF i + 2 = Len(data)
                    THEN out \o <<a * 4 + (b \div 16), (b % 16) * 16 + (c \div 4)>>
                    ELSE AtobFrom(data, i + 4,
                                  out \o <<a * 4 + (b \div 16),
                                           (b % 16) * 16 + (c \div 4),
                                           (c % 4) * 64 + Base64Value(data[i + 3])>>)

\* atob(str).split('').map(char => char.charCodeAt(0)): the bytes, or the
\* InvalidCharacterError atob throws
atob(str) ==
  LET data == Unpadded(str)
  IN  IF Len(data) % 4 = 1 \/ \E i \in 1..Len(data) : Base64Value(data[i]) = 64
      THEN [ok |-> FALSE, bytes |-> <<>>]
      ELSE [ok |-> TRUE, bytes |-> AtobFrom(data, 1, <<>>)]

(* ------------------------------ AES-GCM ------------------------------- *)
\* crypto.subtle.encrypt / decrypt with AES-GCM are the platform's: an
\* authenticated cipher, whose output is a ciphertext as long as the
\* plaintext followed by a 16-byte tag, and which opens only what was
\* sealed under the same key and IV.  The model uses a keyed byte stream
\* and a keyed weighted checksum in its place.
TagBytes == 16

ChecksumModulus == 65521

\* byte i of the stream under key and iv
KeyStream(key, iv, i) ==
  (3 * key[((i - 1) % Len(key)) + 1] + 5 * iv[((i - 1) % Len(iv)) + 1] + 11 * i) % 256

RECURSIVE StreamFrom(_, _, _, _, _, _)
StreamFrom(key, iv, data, sign, i, out) ==
  IF i > Len(data) \/ Len(out) < 0 THEN out
  ELSE StreamFrom(key, iv, data, sign, i + 1,
                  Append(out, (data[i] + sign * KeyStream(key, iv, i) + 256) % 256))

\* the sum of (offset + i) * data[i] over the bytes of data
RECURSIVE WeightedSum(_, _, _, _)
WeightedSum(data, offset, i, acc) ==
  IF i > Len(data) \/ acc < 0 THEN acc
  ELSE WeightedSum(data, offset, i + 1,
                   (acc + (offset + i) * data[i]) % ChecksumModulus)

RECURSIVE TagFrom(_, _, _, _)
TagFrom(key, sum, m, out) ==
  IF m > TagBytes \/ Len(out) < 0 THEN out
  ELSE TagFrom(key, sum, m + 1,
               Append(out,
                      IF m = 1 THEN sum \div 256
                      ELSE IF m = 2 THEN sum % 256
                      ELSE (key[((m - 1) % Len(key)) + 1]
                              + 3 * key[((m + 15) % Len(key)) + 1] + m * sum) % 256))

\* the authentication tag of ciphertext under key and iv
GcmTag(key, iv, ciphertext) ==
  TagFrom(key,
          WeightedSum(ciphertext, 40,
                      1, WeightedSum(iv, 20, 1, WeightedSum(key, 0, 1, 1))),
          1, <<>>)

\* crypto.subtle.encrypt({name: 'AES-GCM', iv}, key, plaintext)
AesGcmEncrypt(key, iv, plaintext) ==
  LET ciphertext == StreamFrom(key, iv, plaintext, 1, 1, <<>>)
  IN  ciphertext \o GcmTag(key, iv, ciphertext)

\* crypto.subtle.decrypt({name: 'AES-GCM', iv}, key, data): the plaintext,
\* or the OperationError decrypt rejects with
AesGcmDecrypt(key, iv, data) ==
  IF Len(iv) = 0 \/ Len(data) < TagBytes THEN [ok |-> FALSE, bytes |-> <<>>]
  ELSE LET ciphertext == SubSeq(data, 1, Len(data) - TagBytes)
           tag == SubSeq(data, Len(data) - TagBytes + 1, Len(data))
       IN  IF tag # GcmTag(key, iv, ciphertext) THEN [ok |-> FALSE, bytes |-> <<>>]
           ELSE [ok |-> TRUE, bytes |-> StreamFrom(key, iv, ciphertext, -1, 1, <<>>)]

(* ------------------------------ inputs -------------------------------- *)
NoString == <<>>

\* the arguments of one initialize call
CredentialsCall(username, password, seed) ==
  [entry |-> "initializeMatrix", username |-> username, password |-> password,
   credentialsHash |-> NoString, seed |-> seed]

HashCall(credentialsHash, seed) ==
  [entry |-> "initializeMatrixFromHash", username |-> NoString,
   password |-> NoString, credentialsHash |-> credentialsHash, seed |-> seed]

ValidInputs ==
  { CredentialsCall(alice, secret, seed654321),
    HashCall(tokenHash, seed123456) }

InvalidInputs ==
  { CredentialsCall(alice, secret, seedShort),
    CredentialsCall(alice, secret, seedNewline),
    HashCall(tokenHash, seedLetter),
    HashCall(tokenHash, seedSpace) }

InitializeInputs == ValidInputs \cup InvalidInputs

\* the hash an initialize call chains from its arguments
FinalSeedHash(inp) ==
  IF inp.entry = "initializeMatrix"
  THEN hashCredentials(inp.username, inp.password, inp.seed)
  ELSE hashFromCredentialsHash(inp.credentialsHash, inp.seed)

\* the digests, matrices and key bytes of the inputs the model draws,
\* tabulated (TLC evaluates a constant table once)
SeedHashOf == [inp \in ValidInputs |-> FinalSeedHash(inp)]

SeedHashes == { SeedHashOf[inp] : inp \in ValidInputs }

MatrixFor == [h \in SeedHashes |-> generateOrthogonalMatrix(MATRIX_SIZE, h)]

KeyMaterialFor == [h \in SeedHashes |-> generateEncryptionKey(h)]

\* embeddings are carried by their length
Embeddings == { [len |-> n] : n \in {MATRIX_SIZE - 1, MATRIX_SIZE, MATRIX_SIZE + 1} }

textEmpty == <<>>
textHi == <<104, 105>>
Texts == {textEmpty, textHi}

\* an emoji (U+1F600, a surrogate pair), "\u20AC\u00E9", a text that starts
\* with U+FEFF and one with U+FEFF inside
textEmoji == <<55357, 56832>>
textEuro == <<8364, 233>>
textBomFirst == <<65279, 97>>
textBomInside == <<97, 65279>>

\* values crypto.getRandomValues may return for the 12-byte IV
ivA == <<1, 2, 3, 4, 5, 6, 7, 8, 9, 10, 11, 12>>
ivB == <<12, 11, 10, 9, 8, 7, 6, 5, 4, 3, 2, 1>>
IVs == {ivA, ivB}

\* the texts encryptText is given
PreferenceTexts ==
  Texts \cup {textEmoji, textEuro, textBomFirst, textBomInside}

\* the key bytes a session can hold
Keys == { KeyMaterialFor[h] : h \in SeedHashes }

(* ------------------------------- frames ------------------------------- *)
\* the frame of a call suspended at its first await
Frame(inp) ==
  [pc |-> "digest", input |-> inp, seedHash |-> NoString,
   generated |-> NULL, keyMaterial |-> NoString, stale |-> FALSE]

InFlight == BagToSet(calls)

Put(bag, c) == bag (+) SetToBag({c})
Drop(bag, c) == bag (-) SetToBag({c})

ErrSeed == "Privacy seed must be exactly 6 digits"
ErrDimension == "Expected 384-dimensional embedding"
ErrMatrixNotInit == "Matrix not initialized"
ErrKeyNotInit == "Encryption key not initialized"
ErrDecrypt == "OperationError"
ErrAtob == "InvalidCharacterError"
NotInitializedErrors == {ErrMatrixNotInit, ErrKeyNotInit}

\* arguments and results are records, one field set per kind of value
NoArgs == [none |-> TRUE]

Void == [void |-> TRUE]

Return(v) == [err |-> "none", val |-> v]
Throw(e) == [err |-> e, val |-> Void]

Step(op, arg, outcome) == [op |-> op, arg |-> arg, out |-> outcome]

Init ==
  /\ matrix = NULL
  /\ encryptionKey = NULL
  /\ currentSeed = NULL
  /\ calls = EmptyBag
  /\ last = Step("constructor", NoArgs, Return(Void))
  /\ sinceClear = "nothing"
  /\ remembered = NULL
  /\ sealed = {}
  /\ sent = {}
  /\ engine = NULL
  /\ isInitializing = FALSE
  /\ initPromise = NULL
  /\ loads = <<>>
  /\ pending = EmptyBag

(* ------------------------ synchronous methods ------------------------- *)
\* isMatrixReady()
isMatrixReady == matrix # NULL /\ encryptionKey # NULL

\* getMatrixInfo()
getMatrixInfo ==
  [hasMatrix |-> matrix # NULL,
   dimensions |-> IF matrix # NULL THEN <<matrix[1].rows, matrix[1].cols>> ELSE <<>>,
   seedSet |-> currentSeed # NULL /\ currentSeed # Some(<<>>)]

\* the product loop without the length test before it
transformEmbeddingUnchecked(embedding) ==
  IF matrix = NULL THEN Throw(ErrMatrixNotInit)
  ELSE Return([vector |-> [len |-> MATRIX_SIZE, by |-> matrix[1].fill]])

\* transformEmbedding(embedding): what the call returns or throws.  The
\* product loop writes transformed[0 .. MATRIX_SIZE-1].
transformEmbedding(embedding) ==
  IF embedding.len # MATRIX_SIZE THEN Throw(ErrDimension)
  ELSE IF matrix = NULL THEN Throw(ErrMatrixNotInit)
  ELSE Return([vector |-> [len |-> MATRIX_SIZE, by |-> matrix[1].fill]])

\* SimpleEmbeddingService.transformEmbedding(embedding, privacyMatrix)
simpleTransformEmbedding(embedding, privacyMatrix) ==
  IF embedding.len # 384 THEN Throw(ErrDimension)
  ELSE Return([vector |-> [len |-> 384, by |-> privacyMatrix.fill]])

\* IV length in bytes: new Uint8Array(12), combined.slice(0, 12)
IvBytes == 12

\* base64 of IV || ciphertext || tag, as encryptText builds it
Seal(key, iv, text) == btoa(iv \o AesGcmEncrypt(key, iv, Utf8Encode(text)))

\* what decryptText does with its input under key: the decoded text, or the
\* error that atob or decrypt raises
Open(key, encryptedData) ==
  LET decoded == atob(encryptedData)
  IN  IF ~decoded.ok THEN Throw(ErrAtob)
      ELSE LET combined == decoded.bytes
               iv == Take(combined, IvBytes)
               encryptedBuffer == SubSeq(combined, IvBytes + 1, Len(combined))
               opened == AesGcmDecrypt(key, iv, encryptedBuffer)
           IN  IF ~opened.ok THEN Throw(ErrDecrypt)
               ELSE Return([text |-> Utf8Decode(opened.bytes)])

\* the results of Seal and Open for the values the model draws, tabulated
SealTable ==
  [x \in { <<k, iv, t>> : k \in Keys, iv \in IVs, t \in PreferenceTexts } |->
     Seal(x[1], x[2], x[3])]

SealOf(key, iv, text) ==
  IF <<key, iv, text>> \in DOMAIN SealTable THEN SealTable[<<key, iv, text>>]
  ELSE Seal(key, iv, text)

Ciphertexts == { SealTable[x] : x \in DOMAIN SealTable }

\* what a changed byte differs by, modulo 256
TamperDeltas == {1, 255}

\* the bytes behind a base64 string, with byte p changed by d
Altered(data, p, d) ==
  LET bytes == atob(data).bytes
  IN  btoa([bytes EXCEPT ![p] = (@ + d) % 256])

TamperTable ==
  [x \in { <<c, p, d>> : c \in Ciphertexts, p \in 1..(IvBytes + 8 + TagBytes),
                          d \in TamperDeltas } |->
     IF x[2] > Len(atob(x[1]).bytes) THEN x[1] ELSE Altered(x[1], x[2], x[3])]

Tamper(data, p, d) ==
  IF <<data, p, d>> \in DOMAIN TamperTable THEN TamperTable[<<data, p, d>>]
  ELSE Altered(data, p, d)

TamperedCiphertexts == { TamperTable[x] : x \in DOMAIN TamperTable }

OpenTable ==
  [x \in { <<k, d>> : k \in Keys, d \in Ciphertexts \cup TamperedCiphertexts } |->
     Open(x[1], x[2])]

OpenOf(key, encryptedData) ==
  IF <<key, encryptedData>> \in DOMAIN OpenTable THEN OpenTable[<<key, encryptedData>>]
  ELSE Open(key, encryptedData)

\* an encryptText that keeps one IV for every call
encryptTextFixedIv(text, iv) ==
  IF encryptionKey = NULL THEN Throw(ErrKeyNotInit)
  ELSE Return([ciphertext |-> SealOf(encryptionKey[1], ivA, text)])

\* encryptText(text), with iv the value getRandomValues returned.  The key
\* is read in the synchronous part, before the await.
encryptText(text, iv) ==
  IF encryptionKey = NULL THEN Throw(ErrKeyNotInit)
  ELSE Return([ciphertext |-> SealOf(encryptionKey[1], iv, text)])

\* a decryptText that hands its input back when it cannot be opened
decryptTextLenient(encryptedData) ==
  IF encryptionKey = NULL THEN Throw(ErrKeyNotInit)
  ELSE IF OpenOf(encryptionKey[1], encryptedData).err # "none"
       THEN Return([text |-> encryptedData])
       ELSE OpenOf(encryptionKey[1], encryptedData)

\* decryptText(encryptedData)
decryptText(encryptedData) ==
  IF encryptionKey = NULL THEN Throw(ErrKeyNotInit)
  ELSE OpenOf(encryptionKey[1], encryptedData)

(* ------------------------------ actions ------------------------------- *)
\* a call passes its seed check and suspends at its first await
Suspend(inp) ==
  /\ BagCardinality(calls) < MaxInFlight
  /\ calls' = Put(calls, Frame(inp))
  /\ last' = Step(inp.entry, inp, Return([promise |-> "pending"]))
  /\ UNCHANGED <<session, sinceClear, remembered, wire, embedder>>

\* a call throws before its first await
Reject(inp, e) ==
  /\ last' = Step(inp.entry, inp, Throw(e))
  /\ UNCHANGED <<session, calls, sinceClear, remembered, wire, embedder>>

\* initializeMatrix(username, password, seed), up to the await on
\* hashCredentials (which runs up to its own await on digest)
initializeMatrix(username, password, seed) ==
  IF ~validateSeed(seed)
  THEN Reject(CredentialsCall(username, password, seed), ErrSeed)
  ELSE Suspend(CredentialsCall(username, password, seed))

\* initializeMatrixFromHash(credentialsHash, seed), up to the await on digest
initializeMatrixFromHash(credentialsHash, seed) ==
  IF ~validateSeed(seed)
  THEN Reject(HashCall(credentialsHash, seed), ErrSeed)
  ELSE Suspend(HashCall(credentialsHash, seed))

\* the statements between the two awaits: this.matrix is assigned, and
\* generateEncryptionKey runs up to its await on importKey
BuildMatrix(c, seedHash) ==
  /\ matrix' = Some(MatrixFor[seedHash])
  /\ calls' = Put(Drop(calls, c),
                  [c EXCEPT !.pc = "importKey",
                            !.seedHash = seedHash,
                            !.generated = matrix',
                            !.keyMaterial = KeyMaterialFor[seedHash]])
  /\ last' = Step("continuation", c.input, Return(Void))
  /\ UNCHANGED <<encryptionKey, currentSeed, sinceClear, remembered, wire,
               embedder>>

\* initializeMatrix resumes with the hash of its credentials
initializeMatrixHashed(c) ==
  /\ c.pc = "digest"
  /\ c.input.entry = "initializeMatrix"
  /\ BuildMatrix(c, SeedHashOf[c.input])

\* initializeMatrixFromHash resumes with the digest of finalSeed
initializeMatrixFromHashDigested(c) ==
  /\ c.pc = "digest"
  /\ c.input.entry = "initializeMatrixFromHash"
  /\ BuildMatrix(c, SeedHashOf[c.input])

\* what a resolved call derived
Derivation(c) ==
  Some([input |-> c.input, matrix |-> c.generated[1], key |-> c.keyMaterial])

\* the statements after the await on generateEncryptionKey; the call resolves
InstallKey(c) ==
  /\ encryptionKey' = Some(c.keyMaterial)
  /\ currentSeed' = Some(c.input.seed)
  /\ calls' = Drop(calls, c)
  /\ last' = Step("resolved", c.input, Return(Void))
  /\ sinceClear' = IF ~c.stale THEN "fresh call resolved"
                   ELSE IF sinceClear = "nothing" THEN "stale call resolved"
                   ELSE sinceClear
  /\ \/ remembered' = remembered
     \/ remembered = NULL /\ remembered' = Derivation(c)
  /\ UNCHANGED <<matrix, wire, embedder>>

initializeMatrixKeyed(c) ==
  /\ c.pc = "importKey"
  /\ c.input.entry = "initializeMatrix"
  /\ InstallKey(c)

initializeMatrixFromHashKeyed(c) ==
  /\ c.pc = "importKey"
  /\ c.input.entry = "initializeMatrixFromHash"
  /\ InstallKey(c)

\* every frame in flight is marked as begun before this clearMatrix
MarkStale(bag) ==
  LET marked(c) == [c EXCEPT !.stale = TRUE]
      unmarked(c) == [c EXCEPT !.stale = FALSE]
      count(c) == IF c \in DOMAIN bag THEN bag[c] ELSE 0
  IN  [c \in { marked(d) : d \in BagToSet(bag) } |-> count(c) + count(unmarked(c))]

\* a clear that drops the matrix and the seed and keeps the key
clearMatrixKeepsKey ==
  /\ matrix' = NULL
  /\ currentSeed' = NULL
  /\ calls' = MarkStale(calls)
  /\ last' = Step("clearMatrix", NoArgs, Return(Void))
  /\ sinceClear' = "nothing"
  /\ UNCHANGED <<encryptionKey, remembered, wire, embedder>>

\* clearMatrix()
clearMatrix ==
  /\ matrix' = NULL
  /\ encryptionKey' = NULL
  /\ currentSeed' = NULL
  /\ calls' = MarkStale(calls)
  /\ last' = Step("clearMatrix", NoArgs, Return(Void))
  /\ sinceClear' = "nothing"
  /\ UNCHANGED <<remembered, wire, embedder>>

\* a call of a method that only reads the session
Query(op, arg, outcome) ==
  /\ last' = Step(op, arg, outcome)
  /\ UNCHANGED <<session, calls, sinceClear, remembered, wire, embedder>>

CallIsMatrixReady == Query("isMatrixReady", NoArgs, Return([ready |-> isMatrixReady]))

CallGetMatrixInfo == Query("getMatrixInfo", NoArgs, Return([info |-> getMatrixInfo]))

CallTransformEmbedding(embedding) ==
  Query("transformEmbedding", embedding, transformEmbedding(embedding))

CallEncryptText(text, iv) ==
  Query("encryptText", [text |-> text], encryptText(text, iv))

CallDecryptText(encryptedData) ==
  Query("decryptText", [data |-> encryptedData], decryptText(encryptedData))

\* the demo's transform, applied to a matrix its caller built
CallSimpleTransformEmbedding(embedding, privacyMatrix) ==
  Query("SimpleEmbeddingService.transformEmbedding", embedding,
        simpleTransformEmbedding(embedding, privacyMatrix))

\* ciphertexts a caller may hold: sealed under the key of some derivation
StoredCiphertexts ==
  { SealOf(KeyMaterialFor[h], ivA, textHi) : h \in SeedHashes }

\* the matrix the demo page passes
DemoMatrices == { MatrixFor[SeedHashOf[HashCall(tokenHash, seed123456)]] }

Next ==
  \/ \E inp \in InitializeInputs :
       /\ inp.entry = "initializeMatrix"
       /\ initializeMatrix(inp.username, inp.password, inp.seed)
  \/ \E inp \in InitializeInputs :
       /\ inp.entry = "initializeMatrixFromHash"
       /\ initializeMatrixFromHash(inp.credentialsHash, inp.seed)
  \/ \E c \in InFlight : initializeMatrixHashed(c)
  \/ \E c \in InFlight : initializeMatrixFromHashDigested(c)
  \/ \E c \in InFlight : initializeMatrixKeyed(c)
  \/ \E c \in InFlight : initializeMatrixFromHashKeyed(c)
  \/ clearMatrix
  \/ CallIsMatrixReady
  \/ CallGetMatrixInfo
  \/ \E e \in Embeddings : CallTransformEmbedding(e)
  \/ \E t \in Texts, iv \in IVs : CallEncryptText(t, iv)
  \/ \E ct \in StoredCiphertexts : CallDecryptText(ct)
  \/ \E e \in Embeddings, m \in DemoMatrices : CallSimpleTransformEmbedding(e, m)

Spec == Init /\ [][Next]_vars

(* ------------------- the seed validators on their own ------------------ *)
\* '0', '9', 'a', ' ' and line feed
SeedAlphabet == {48, 57, 97, 32, 10}

SeedStrings ==
  UNION { [1..n -> SeedAlphabet] : n \in 0..MaxSeedLen }
    \cup {seed123456, seed654321, seedShort, seedLetter, seedNewline, seedSpace}

InitSeed ==
  /\ matrix = NULL
  /\ encryptionKey = NULL
  /\ currentSeed = NULL
  /\ calls = EmptyBag
  /\ last \in { Step("seed entered", [seed |-> s], Return(Void)) : s \in SeedStrings }
  /\ sinceClear = "nothing"
  /\ remembered = NULL
  /\ sealed = {}
  /\ sent = {}
  /\ engine = NULL
  /\ isInitializing = FALSE
  /\ initPromise = NULL
  /\ loads = <<>>
  /\ pending = EmptyBag

Validate(op, accepted) ==
  /\ last.op = "seed entered"
  /\ last' = Step(op, last.arg, Return([accepted |-> accepted]))
  /\ UNCHANGED <<session, calls, sinceClear, remembered, wire, embedder>>

CallValidateSeed == Validate("validateSeed", validateSeed(last.arg.seed))

CallStaticValidateSeed ==
  Validate("PrivacyTransformService.validateSeed", staticValidateSeed(last.arg.seed))

CallVaultClientSeedCheck ==
  Validate("VaultClient.initializePrivacy", vaultClientSeedCheck(last.arg.seed))

NextSeed ==
  \/ CallValidateSeed
  \/ CallStaticValidateSeed
  \/ CallVaultClientSeedCheck

SpecSeed == InitSeed /\ [][NextSeed]_vars

(* ------------- encryptText and decryptText, results kept -------------- *)
\* a caller that awaits each initialize call before it makes the next
AwaitedInitializeMatrix ==
  /\ calls = EmptyBag
  /\ \E inp \in ValidInputs :
       /\ inp.entry = "initializeMatrix"
       /\ initializeMatrix(inp.username, inp.password, inp.seed)

AwaitedInitializeMatrixFromHash ==
  /\ calls = EmptyBag
  /\ \E inp \in ValidInputs :
       /\ inp.entry = "initializeMatrixFromHash"
       /\ initializeMatrixFromHash(inp.credentialsHash, inp.seed)

\* what is known of an encryptText call whose result was kept
Kept(key, iv, text, data) == [key |-> key, iv |-> iv, text |-> text, data |-> data]

\* encryptText(text), the result kept by the caller
EncryptAndKeep(text, iv) ==
  /\ Cardinality(sealed) < MaxSealed
  /\ last' = Step("encryptText", [text |-> text], encryptText(text, iv))
  /\ sealed' = IF encryptionKey = NULL THEN sealed
               ELSE sealed \cup {Kept(encryptionKey[1], iv, text,
                                      encryptText(text, iv).val.ciphertext)}
  /\ UNCHANGED <<session, calls, sinceClear, remembered, sent, embedder>>

\* decryptText of a result that was kept
DecryptKept(s) == CallDecryptText(s.data)

NextCipher ==
  \/ AwaitedInitializeMatrix
  \/ AwaitedInitializeMatrixFromHash
  \/ \E c \in InFlight : initializeMatrixHashed(c)
  \/ \E c \in InFlight : initializeMatrixFromHashDigested(c)
  \/ \E c \in InFlight : initializeMatrixKeyed(c)
  \/ \E c \in InFlight : initializeMatrixFromHashKeyed(c)
  \/ clearMatrix
  \/ \E t \in PreferenceTexts, iv \in IVs : EncryptAndKeep(t, iv)
  \/ \E s \in sealed : DecryptKept(s)

SpecCipher == Init /\ [][NextCipher]_vars

(* ------------------- encryptText called repeatedly -------------------- *)
NextIv ==
  \/ AwaitedInitializeMatrix
  \/ AwaitedInitializeMatrixFromHash
  \/ \E c \in InFlight : initializeMatrixHashed(c)
  \/ \E c \in InFlight : initializeMatrixFromHashDigested(c)
  \/ \E c \in InFlight : initializeMatrixKeyed(c)
  \/ \E c \in InFlight : initializeMatrixFromHashKeyed(c)
  \/ clearMatrix
  \/ \E t \in Texts, iv \in IVs : EncryptAndKeep(t, iv)

SpecIv == Init /\ [][NextIv]_vars

(* -------------------- decryptText of altered input -------------------- *)
\* decryptText of a kept result with one byte changed on the way
DecryptTampered(s, p, d) == CallDecryptText(Tamper(s.data, p, d))

\* a caller that keeps one result at a time
NextTamper ==
  \/ AwaitedInitializeMatrix
  \/ AwaitedInitializeMatrixFromHash
  \/ \E c \in InFlight : initializeMatrixHashed(c)
  \/ \E c \in InFlight : initializeMatrixFromHashDigested(c)
  \/ \E c \in InFlight : initializeMatrixKeyed(c)
  \/ \E c \in InFlight : initializeMatrixFromHashKeyed(c)
  \/ sealed = {} /\ \E t \in Texts, iv \in IVs : EncryptAndKeep(t, iv)
  \/ \E s \in sealed : DecryptKept(s)
  \/ \E s \in sealed :
       \E p \in 1..Len(atob(s.data).bytes), d \in TamperDeltas :
         DecryptTampered(s, p, d)

SpecTamper == Init /\ [][NextTamper]_vars

(* ------------------- the key derivation on its own -------------------- *)
\* halves of seed hashes: 32 lowercase hex digits each
HalfHashes ==
  { [i \in 1..DigestBytes |-> HexDigit((a * i + b) % 16)] : a \in 1..4, b \in 0..3 }

\* seed hashes the derivation is given; many agree on their first half
KeyHashes == SeedHashes \cup { x \o y : x, y \in HalfHashes }

\* the seed hash written into SimpleEmbeddingService.decryptText
demoSeedHashString ==
  <<50, 99, 101, 101, 55, 98, 57, 51, 56, 101, 51, 99, 48, 99, 98, 102,
    57, 102, 99, 56, 55, 55, 49, 52, 99, 53, 97, 54, 101, 102, 50, 57,
    54, 56, 55, 99, 102, 99, 54, 50, 52, 55, 101, 98, 50, 51, 52, 49,
    55, 101, 52, 49, 100, 97, 53, 52, 56, 102, 48, 56, 52, 48, 55, 48>>

KeyTable ==
  [h \in { x : x \in KeyHashes \cup {demoSeedHashString} } |->
     generateEncryptionKey(h)]

\* this.generateEncryptionKey(seedHashString), up to importKey
CallGenerateEncryptionKey(seedHashString) ==
  Query("generateEncryptionKey", [seedHashString |-> seedHashString],
        Return([keyMaterial |-> KeyTable[seedHashString]]))

\* SimpleEmbeddingService.decryptText, up to importKey: the same derivation
\* from the seed hash written into it
SimpleDecryptTextKey ==
  Query("SimpleEmbeddingService.decryptText",
        [seedHashString |-> demoSeedHashString],
        Return([keyMaterial |->
                  Take(Utf8Encode(Take(demoSeedHashString, 64)), KeyBytes)]))

NextKey ==
  \/ \E h \in KeyHashes : CallGenerateEncryptionKey(h)
  \/ SimpleDecryptTextKey

SpecKey == Init /\ [][NextKey]_vars

(* ------------------- the paths that add a preference ------------------ *)
\* requests the model lets the backend receive
MaxSent == 2

\* the code units String.prototype.trim removes from both ends: WhiteSpace
\* and LineTerminator of ECMAScript
WhiteSpace ==
  {9, 10, 11, 12, 13, 32, 160, 5760, 8232, 8233, 8239, 8287, 12288, 65279}
    \cup 8192..8202

\* text.trim()
trim(text) ==
  LET kept == { i \in DOMAIN text : text[i] \notin WhiteSpace }
      first == CHOOSE i \in kept : \A j \in kept : i <= j
      final == CHOOSE i \in kept : \A j \in kept : j <= i
  IN  IF kept = {} THEN <<>> ELSE SubSeq(text, first, final)

\* texts typed in the form, " hi " and " " among them
textPadded == <<32, 104, 105, 32>>
textBlank == <<32>>
FormTexts == {textHi, textEuro, textPadded, textBlank}

noCategory == ""
Categories == {noCategory, "ui-ux"}

\* the slider of the form, 1 to 10, starts at 5
Strengths == {5, 10}

ErrPrivacyNotInit == "Privacy matrix not initialized"
ErrNoEmbedding == "Apps must provide their own embedding generation"

\* the JSON body of POST /api/preferences/add; strength in tenths
RequestBody(text, category_slug, strength, embedding) ==
  [text |-> text, category_slug |-> category_slug, strength |-> strength,
   embedding |-> embedding]

\* a request on its way to the backend: its body, and for the record the
\* path that sent it and the text the user entered
Post(path, entered, body) ==
  sent' = sent \cup {[path |-> path, entered |-> entered, body |-> body]}

\* apiClient.createPreference(userId, data): the body it hands to
\* fetchFromAPI, which sends it as it is
createPreference(data) ==
  RequestBody(data.text, data.categoryId,
              IF data.strength = 0 THEN 10 ELSE data.strength, data.embedding)

\* AddPreferenceModal.handleSubmit with the form holding text, category and
\* strength, from the moment the embedding engine has answered with
\* embedding.  embeddingService.generateEmbedding applies the singleton's
\* transformEmbedding; an error is caught and logged and nothing is sent.
AddPreferenceModalSubmit(text, category, strength, embedding) ==
  LET transformed == transformEmbedding(embedding)
  IN  /\ Cardinality(sent) < MaxSent
      /\ last' = Step("AddPreferenceModal.handleSubmit", [text |-> text],
                      Return(Void))
      /\ IF trim(text) = <<>> \/ category = noCategory
              \/ transformed.err # "none"
         THEN UNCHANGED sent
         ELSE Post("AddPreferenceModal", text,
                   createPreference([text |-> trim(text),
                                     categoryId |-> category,
                                     strength |-> strength,
                                     embedding |-> transformed.val.vector]))
      /\ UNCHANGED <<session, calls, sinceClear, remembered, sealed, embedder>>

\* VaultClient.generateEmbedding(text)
vaultClientGenerateEmbedding(text) == Throw(ErrNoEmbedding)

\* VaultClient.addPreference(text, category, strength) on the session of the
\* client's own PrivacyTransformService; iv is what getRandomValues returns
\* inside encryptText
VaultClientAddPreference(text, category, strength, iv) ==
  LET embedding == vaultClientGenerateEmbedding(text)
      transformed == transformEmbedding(embedding.val)
      encryptedText == encryptText(text, iv)
      failure ==
        IF ~isMatrixReady THEN ErrPrivacyNotInit
        ELSE IF embedding.err # "none" THEN embedding.err
        ELSE IF transformed.err # "none" THEN transformed.err
        ELSE encryptedText.err
  IN  /\ Cardinality(sent) < MaxSent
      /\ IF failure # "none"
         THEN /\ last' = Step("VaultClient.addPreference", [text |-> text],
                              Throw(failure))
              /\ UNCHANGED sent
         ELSE /\ last' = Step("VaultClient.addPreference", [text |-> text],
                              Return([promise |-> "pending"]))
              /\ Post("VaultClient.addPreference", text,
                      RequestBody(encryptedText.val.ciphertext, category,
                                  strength, transformed.val.vector))
      /\ UNCHANGED <<session, calls, sinceClear, remembered, sealed, embedder>>

NextClient ==
  \/ AwaitedInitializeMatrix
  \/ AwaitedInitializeMatrixFromHash
  \/ \E c \in InFlight : initializeMatrixHashed(c)
  \/ \E c \in InFlight : initializeMatrixFromHashDigested(c)
  \/ \E c \in InFlight : initializeMatrixKeyed(c)
  \/ \E c \in InFlight : initializeMatrixFromHashKeyed(c)
  \/ clearMatrix
  \/ \E t \in FormTexts, c \in Categories, g \in Strengths, e \in Embeddings :
       AddPreferenceModalSubmit(t, c, g, e)
  \/ \E t \in FormTexts, c \in Categories, g \in Strengths, iv \in IVs :
       VaultClientAddPreference(t, c, g, iv)

SpecClient == Init /\ [][NextClient]_vars

(* ------------------------- exact arithmetic --------------------------- *)
\* The entries of the matrix are JavaScript numbers.  The model computes
\* with the exact values they stand for: an integer of any size is a sign
\* and a magnitude, the magnitude a sequence of limbs (least significant
\* first, no leading zero limb), so that equal integers are equal values.
\* Rounding is not modelled.
LimbBase == 10000

MagAdd(a, b) ==
  LET RECURSIVE From(_, _, _)
      From(i, carry, out) ==
        IF (i > Len(a) /\ i > Len(b)) \/ Len(out) < 0 \/ carry < 0
        THEN IF carry = 0 THEN out ELSE Append(out, carry)
        ELSE LET t == (IF i <= Len(a) THEN a[i] ELSE 0)
                        + (IF i <= Len(b) THEN b[i] ELSE 0) + carry
             IN  From(i + 1, t \div LimbBase, Append(out, t % LimbBase))
  IN  From(1, 0, <<>>)

\* the magnitude without leading zero limbs
RECURSIVE Significant(_)
Significant(m) ==
  IF Len(m) > 0 /\ m[Len(m)] = 0 THEN Significant(SubSeq(m, 1, Len(m) - 1))
  ELSE m

\* a - b for a >= b
MagSub(a, b) ==
  LET RECURSIVE From(_, _, _)
      From(i, borrow, out) ==
        IF i > Len(a) \/ Len(out) < 0 \/ borrow < 0 THEN Significant(out)
        ELSE LET t == a[i] - (IF i <= Len(b) THEN b[i] ELSE 0) - borrow
             IN  IF t < 0 THEN From(i + 1, 1, Append(out, t + LimbBase))
                 ELSE From(i + 1, 0, Append(out, t))
  IN  From(1, 0, <<>>)

\* a < b, compared from the most significant limb down
MagLess(a, b) ==
  LET RECURSIVE From(_)
      From(i) ==
        IF i = 0 THEN FALSE
        ELSE IF a[i] # b[i] THEN a[i] < b[i]
        ELSE From(i - 1)
  IN  IF Len(a) # Len(b) THEN Len(a) < Len(b) ELSE From(Len(a))

\* schoolbook product: a times each limb of b, shifted and summed
MagMul(a, b) ==
  LET RECURSIVE TimesLimb(_, _, _, _)
      TimesLimb(l, i, carry, out) ==
        IF i > Len(a) \/ Len(out) < 0 \/ carry < 0
        THEN Significant(IF carry = 0 THEN out ELSE Append(out, carry))
        ELSE LET t == a[i] * l + carry
             IN  TimesLimb(l, i + 1, t \div LimbBase, Append(out, t % LimbBase))
      RECURSIVE From(_, _, _)
      From(i, shift, acc) ==
        IF i > Len(b) \/ Len(acc) < 0 \/ Len(shift) < 0 THEN acc
        ELSE From(i + 1, Append(shift, 0),
                  MagAdd(acc, TimesLimb(b[i], 1, 0, shift)))
  IN  From(1, <<>>, <<>>)

Zero == [neg |-> FALSE, mag |-> <<>>]
IsZero(x) == x.mag = <<>>

\* the integer n
Num(n) ==
  LET RECURSIVE MagOf(_, _)
      MagOf(k, out) ==
        IF k = 0 \/ Len(out) < 0 THEN out
        ELSE MagOf(k \div LimbBase, Append(out, k % LimbBase))
  IN  IF n < 0 THEN [neg |-> TRUE, mag |-> MagOf(-n, <<>>)]
      ELSE [neg |-> FALSE, mag |-> MagOf(n, <<>>)]

One == Num(1)

Neg(x) == IF IsZero(x) THEN x ELSE [neg |-> ~x.neg, mag |-> x.mag]

Add(x, y) ==
  IF x.neg = y.neg THEN [neg |-> x.neg, mag |-> MagAdd(x.mag, y.mag)]
  ELSE IF x.mag = y.mag THEN Zero
  ELSE IF MagLess(x.mag, y.mag)
       THEN [neg |-> y.neg, mag |-> MagSub(y.mag, x.mag)]
       ELSE [neg |-> x.neg, mag |-> MagSub(x.mag, y.mag)]

Sub(x, y) == Add(x, Neg(y))

Mul(x, y) ==
  IF IsZero(x) \/ IsZero(y) THEN Zero
  ELSE [neg |-> x.neg # y.neg, mag |-> MagMul(x.mag, y.mag)]

\* sum over j of u[j] * v[j]
Dot(u, v) ==
  LET RECURSIVE From(_, _)
      From(j, acc) ==
        IF j > Len(u) \/ Len(acc.mag) < 0 THEN acc
        ELSE From(j + 1, Add(acc, Mul(u[j], v[j])))
  IN  From(1, Zero)

(* --------------------------- Gram-Schmidt ----------------------------- *)
\* A row of the matrix is [w, p, q, nan]: entry j is w[j] * sqrt(p / q) for
\* integers w[j] and p, q > 0, or every entry is NaN.  The square root is
\* the one Math.sqrt takes of the row's squared norm; it never has to be
\* evaluated, since every product of two entries of rows is rational.
Row(w, p, q) == [w |-> w, p |-> p, q |-> q, nan |-> FALSE]

\* matrix[i][j] = seededRandom() - 0.5, that is (seed - 116640) / 233280
Fill(size, seedValue) ==
  LET states == Draws(seedValue, size * size)
  IN  [i \in 1..size |->
         Row([j \in 1..size |->
                Num(states[(i - 1) * size + j] - LcgModulus \div 2)],
             One, Mul(Num(LcgModulus), Num(LcgModulus)))]

\* norm = Math.sqrt(sum of squares); matrix[i][j] /= norm.  The squared norm
\* is Dot(w, w) * p / q; it is 0 only when every entry is 0, and then each
\* 0 / 0 is NaN.  There is no other outcome: nothing is thrown.
Normalize(row) ==
  LET sq == Dot(row.w, row.w)
  IN  IF row.nan \/ IsZero(sq) THEN [row EXCEPT !.nan = TRUE]
      ELSE [row EXCEPT !.p = Mul(row.p, row.q), !.q = Mul(row.q, Mul(sq, row.p))]

\* dotProduct = sum of matrix[i][j] * matrix[k][j];
\* matrix[k][j] -= dotProduct * matrix[i][j].  With row i = u * sqrt(pi/qi)
\* and row k = w * sqrt(pk/qk) the new row k is
\* (qi * w - Dot(u, w) * pi * u) * sqrt(pk / (qk * qi * qi)).
Project(rowI, rowK) ==
  LET d == Mul(Dot(rowI.w, rowK.w), rowI.p)
  IN  IF rowI.nan \/ rowK.nan THEN [rowK EXCEPT !.nan = TRUE]
      ELSE [rowK EXCEPT
              !.w = [j \in DOMAIN rowK.w |->
                       Sub(Mul(rowI.q, rowK.w[j]), Mul(d, rowI.w[j]))],
              !.q = Mul(rowK.q, Mul(rowI.q, rowI.q))]

RECURSIVE Orthogonalize(_, _, _)
Orthogonalize(m, i, k) ==
  IF k > Len(m) THEN m
  ELSE Orthogonalize([m EXCEPT ![k] = Project(m[i], m[k])], i, k + 1)

RECURSIVE GramSchmidt(_, _)
GramSchmidt(m, i) ==
  IF i > Len(m) THEN m
  ELSE GramSchmidt(Orthogonalize([m EXCEPT ![i] = Normalize(m[i])], i, i + 1),
                   i + 1)

\* generateOrthogonalMatrix(size, seedHash) with every entry computed
OrthogonalMatrix(size, seedHash) ==
  Return([rows |-> GramSchmidt(Fill(size, FoldSeed(seedHash)), 1)])

(* ------------------ the matrix builder on its own --------------------- *)
\* the sizes the builder is evaluated at
GramSizes == {1, 2}

\* SHA-256 of "bob:secret:907826" in hex, what initializeMatrix("bob",
\* "secret", "907826") passes to the builder: it folds to 1868478803 and
\* the first seededRandom() leaves seed = 116640, so matrix[0][0] is 0
hashZeroEntry ==
  <<48, 52, 56, 52, 51, 52, 53, 100, 100, 52, 52, 101, 56, 98, 56, 101,
     54, 98, 97, 100, 102, 55, 55, 55, 50, 102, 52, 49, 101, 98, 54, 52,
     48, 49, 100, 98, 57, 100, 50, 57, 51, 48, 50, 101, 52, 54, 102, 102,
     99, 56, 50, 49, 100, 101, 56, 56, 98, 57, 101, 54, 102, 101, 53, 53>>

\* privacy seeds 000000 .. 000077
GramSeeds == { <<48, 48, 48, 48, a, b>> : a, b \in 48..55 }

\* seed hashes the builder is given
GramHashes ==
  {hashZeroEntry} \cup SeedHashes
    \cup { hashFromCredentialsHash(tokenHash, seed) : seed \in GramSeeds }

GramTable ==
  [x \in { <<size, h>> : size \in GramSizes, h \in GramHashes } |->
     OrthogonalMatrix(x[1], x[2])]

\* this.generateOrthogonalMatrix(size, seedHash), called on its own
CallGenerateOrthogonalMatrix(size, seedHash) ==
  Query("generateOrthogonalMatrix",
        [build |-> [size |-> size, seedHash |-> seedHash]],
        GramTable[<<size, seedHash>>])

NextGram ==
  \E size \in GramSizes, h \in GramHashes :
    CallGenerateOrthogonalMatrix(size, h)

SpecGram == Init /\ [][NextGram]_vars

(* ------------------ the demo's SimpleEmbeddingService ----------------- *)
\* hashString(str): hash = ((hash << 5) - hash) + char; hash = hash & hash
\* over the characters, then Math.abs.  (Math.abs(-2^31) is 2^31, which no
\* string the model draws folds to.)
hashString(str) ==
  LET hash == FoldSeed(str)
  IN  IF hash < 0 THEN -hash ELSE hash

\* the modulus m = 0x80000000 of seededRandom, less one
DemoDivisor == 2147483647

\* seed = (a * seed + c) % m inside seededRandom, for 0 < seed < 2^31, with
\* a = 1103515245, c = 12345, m = 2^31.  The operands are doubles: a * seed
\* (up to 61 bits) is rounded to 53 significant bits, ties to even, and so
\* is the sum with c; % is exact.  Numbers are little-endian tuples of
\* 15-bit limbs.
seededRandomNext(seed) ==
  LET B == 32768
      RECURSIVE Carry(_, _, _, _)
      Carry(x, i, carry, out) ==
        IF i > Len(x) \/ carry < 0 THEN out
        ELSE Carry(x, i + 1, (x[i] + carry) \div B,
                   Append(out, IF i = Len(x) THEN x[i] + carry
                               ELSE (x[i] + carry) % B))
      RECURSIVE Bits(_)
      Bits(n) == IF n = 0 THEN 0 ELSE 1 + Bits(n \div 2)
      RECURSIVE BitLength(_, _)
      BitLength(x, i) ==
        IF i = 0 THEN 0
        ELSE IF x[i] # 0 THEN 15 * (i - 1) + Bits(x[i])
        ELSE BitLength(x, i - 1)
      Round53(x) ==
        LET e == BitLength(x, Len(x))
            unit == 2 ^ (IF e > 53 THEN e - 53 ELSE 0)
            rest == x[1] % unit
            up == \/ 2 * rest > unit
                  \/ 2 * rest = unit /\ (x[1] \div unit) % 2 = 1
        IN  Carry([x EXCEPT ![1] = x[1] - rest + (IF up THEN unit ELSE 0)],
                  1, 0, <<>>)
      a == <<1103515245 % B, (1103515245 \div B) % B, 1103515245 \div (B * B)>>
      s == <<seed % B, (seed \div B) % B, seed \div (B * B)>>
      product ==
        Round53(Carry(<<a[1] * s[1],
                        a[1] * s[2] + a[2] * s[1],
                        a[1] * s[3] + a[2] * s[2] + a[3] * s[1],
                        a[2] * s[3] + a[3] * s[2],
                        a[3] * s[3]>>, 1, 0, <<>>))
      sum == Round53(Carry([product EXCEPT ![1] = product[1] + 12345],
                           1, 0, <<>>))
  IN  sum[1] + sum[2] * B + (sum[3] % 2) * B * B

\* the values seed takes over n successive random() calls of
\* seededRandom(seed), after seed = (seed % (m - 1)) + 1; the number a call
\* returns is seed / (m - 1)
RECURSIVE seededRandomFrom(_, _, _)
seededRandomFrom(seed, n, out) ==
  IF n = 0 \/ Len(out) < 0 THEN out
  ELSE seededRandomFrom(seededRandomNext(seed), n - 1,
                        Append(out, seededRandomNext(seed)))

seededRandom(seed, n) == seededRandomFrom((seed % DemoDivisor) + 1, n, <<>>)

\* SimpleEmbeddingService.generatePrivacyMatrix(credentialsHash, seed),
\* carried like the frontend's matrix: its dimensions and the generator
\* states behind its first MaxFill entries in row-major order.  Entry j is
\* fill[j] / (m - 1) - 0.5.
generatePrivacyMatrix(credentialsHash, seed) ==
  [rows |-> 384, cols |-> 384,
   fill |-> seededRandom(hashString(credentialsHash \o Colon \o seed), MaxFill)]

\* a decryptText that derives its key from its arguments, as the frontend
\* derives it from the same credentials hash and seed
simpleDecryptTextDerived(encryptedData, credentialsHash, seed) ==
  LET keyMaterial ==
        generateEncryptionKey(hashFromCredentialsHash(credentialsHash, seed))
      opened == Open(keyMaterial, encryptedData)
  IN  IF opened.err # "none" THEN Return([text |-> encryptedData]) ELSE opened

\* SimpleEmbeddingService.decryptText(encryptedData, credentialsHash, seed):
\* the whole body is inside try, and catch returns encryptedData
simpleDecryptText(encryptedData, credentialsHash, seed) ==
  LET keyMaterial == Take(Utf8Encode(Take(demoSeedHashString, 64)), KeyBytes)
      opened == Open(keyMaterial, encryptedData)
  IN  IF opened.err # "none" THEN Return([text |-> encryptedData]) ELSE opened

(* ------------------- the demo's builders on their own ----------------- *)
\* the credentials hashes and seeds the demo is given (it checks neither)
DemoCredentials == {tokenHash, hashZeroEntry}

DemoSeeds == GramSeeds \cup {seed123456, seed654321}

\* what the backend may hand the demo as a preference text: texts sealed by
\* a frontend session, a text sealed under the key written into the demo,
\* and a text that was stored unencrypted
DemoStored ==
  StoredCiphertexts
    \cup { Seal(Take(Utf8Encode(demoSeedHashString), KeyBytes), ivB, textHi),
           textPadded }

\* the seeds decryptText is called with (the demo page passes '123456')
DemoKeySeeds == {seed123456, seed654321}

\* the demo's results for the values the model draws, tabulated
PrivacyMatrixTable ==
  [x \in { <<h, s>> : h \in DemoCredentials, s \in DemoSeeds } |->
     generatePrivacyMatrix(x[1], x[2])]

SimpleDecryptTable ==
  [x \in { <<d, h, s>> : d \in DemoStored, h \in DemoCredentials,
                          s \in DemoKeySeeds } |->
     simpleDecryptText(x[1], x[2], x[3])]

CallGeneratePrivacyMatrix(credentialsHash, seed) ==
  Query("SimpleEmbeddingService.generatePrivacyMatrix",
        [demo |-> [credentialsHash |-> credentialsHash, seed |-> seed]],
        Return([matrix |-> PrivacyMatrixTable[<<credentialsHash, seed>>]]))

\* decryptText called and awaited; one earlier call may be remembered
CallSimpleDecryptText(encryptedData, credentialsHash, seed) ==
  LET arg == [encryptedData |-> encryptedData,
              credentialsHash |-> credentialsHash, seed |-> seed]
      outcome == SimpleDecryptTable[<<encryptedData, credentialsHash, seed>>]
  IN  /\ last' = Step("SimpleEmbeddingService.decryptText",
                      [sealedFor |-> arg], outcome)
      /\ \/ remembered' = remembered
         \/ remembered = NULL
              /\ remembered' = Some([input |-> arg, result |-> outcome])
      /\ UNCHANGED <<session, calls, sinceClear, wire, embedder>>

NextDemo ==
  \/ \E h \in DemoCredentials, s \in DemoSeeds : CallGeneratePrivacyMatrix(h, s)
  \/ \E d \in DemoStored, h \in DemoCredentials, s \in DemoKeySeeds :
       CallSimpleDecryptText(d, h, s)

SpecDemo == Init /\ [][NextDemo]_vars

(* ------------------------ VaultClient on its own ---------------------- *)
ErrNoCredentialsHash == "Token does not contain credentials hash"

\* the token the client was constructed with: one that carries a
\* credentials_hash
vaultToken == [access_token |-> "token", credentials_hash |-> tokenHash]

\* VaultClient.initializePrivacy(privacySeed), up to the await inside
\* initializeMatrixFromHash of the client's own PrivacyTransformService
VaultClientInitializePrivacy(privacySeed) ==
  IF vaultToken.credentials_hash = NoString
  THEN Reject(HashCall(NoString, privacySeed), ErrNoCredentialsHash)
  ELSE IF ~vaultClientSeedCheck(privacySeed)
  THEN Reject(HashCall(vaultToken.credentials_hash, privacySeed), ErrSeed)
  ELSE initializeMatrixFromHash(vaultToken.credentials_hash, privacySeed)

\* VaultClient.queryPreferences(queryText, context): the call rejects, or
\* its request leaves with fetch
VaultClientQueryPreferences(queryText, context) ==
  LET embedding == vaultClientGenerateEmbedding(queryText)
      transformed == transformEmbedding(embedding.val)
      failure ==
        IF ~isMatrixReady THEN ErrPrivacyNotInit
        ELSE IF embedding.err # "none" THEN embedding.err
        ELSE transformed.err
  IN  /\ Cardinality(sent) < MaxSent
      /\ IF failure # "none"
         THEN /\ last' = Step("VaultClient.queryPreferences",
                              [text |-> queryText], Throw(failure))
              /\ UNCHANGED sent
         ELSE /\ last' = Step("VaultClient.queryPreferences",
                              [text |-> queryText],
                              Return([promise |-> "pending"]))
              /\ Post("VaultClient.queryPreferences", queryText,
                      [embedding |-> transformed.val.vector,
                       context |-> context])
      /\ UNCHANGED <<session, calls, sinceClear, remembered, sealed, embedder>>

\* a getTopPreferences without the test of isMatrixReady
VaultClientGetTopPreferencesUnguarded(category, limit) ==
  /\ Cardinality(sent) < MaxSent
  /\ last' = Step("VaultClient.getTopPreferences",
                  [top |-> [category |-> category, limit |-> limit]],
                  Return([promise |-> "pending"]))
  /\ Post("VaultClient.getTopPreferences", NoString,
          [limit |-> limit, category |-> category])
  /\ UNCHANGED <<session, calls, sinceClear, remembered, sealed, embedder>>

\* VaultClient.getTopPreferences(category, limit), up to its fetch of
\* /preferences/top?limit=..&category=..
VaultClientGetTopPreferences(category, limit) ==
  /\ Cardinality(sent) < MaxSent
  /\ IF ~isMatrixReady
     THEN /\ last' = Step("VaultClient.getTopPreferences",
                          [top |-> [category |-> category, limit |-> limit]],
                          Throw(ErrPrivacyNotInit))
          /\ UNCHANGED sent
     ELSE /\ last' = Step("VaultClient.getTopPreferences",
                          [top |-> [category |-> category, limit |-> limit]],
                          Return([promise |-> "pending"]))
          /\ Post("VaultClient.getTopPreferences", NoString,
                  [limit |-> limit, category |-> category])
  /\ UNCHANGED <<session, calls, sinceClear, remembered, sealed, embedder>>

\* the seeds the user of the app types
VaultSeeds == {seed123456, seedLetter, seedShort}

\* limit: 20 by default, 10 in the usage example
Limits == {20, 10}

NextVault ==
  \/ \E s \in VaultSeeds : VaultClientInitializePrivacy(s)
  \/ \E c \in InFlight : initializeMatrixFromHashDigested(c)
  \/ \E c \in InFlight : initializeMatrixFromHashKeyed(c)
  \/ \E t \in FormTexts, c \in Categories : VaultClientQueryPreferences(t, c)
  \/ \E t \in FormTexts, c \in Categories, g \in Strengths, iv \in IVs :
       VaultClientAddPreference(t, c, g, iv)
  \/ \E c \in Categories, n \in Limits : VaultClientGetTopPreferences(c, n)

SpecVault == Init /\ [][NextVault]_vars

(* ------------------- initialize calls that can fail ------------------- *)
ErrDigest == "crypto.subtle.digest rejected"
ErrImportKey == "crypto.subtle.importKey rejected"

\* a caller that awaits each initialize call before it makes the next, and
\* notes what the session holds when it makes the call
InitializeNoted(inp) ==
  /\ calls = EmptyBag
  /\ validateSeed(inp.seed)
  /\ calls' = Put(calls, Frame(inp))
  /\ last' = Step(inp.entry, inp, Return([promise |-> "pending"]))
  /\ remembered' = Some([before |-> session])
  /\ UNCHANGED <<session, sinceClear, wire, embedder>>

\* the promise a call awaits rejects: the await throws inside the async
\* method, no statement after it runs, and the call rejects with the error
Rejected(c, e) ==
  /\ calls' = Drop(calls, c)
  /\ last' = Step("rejected", c.input, Throw(e))
  /\ UNCHANGED <<session, sinceClear, remembered, wire, embedder>>

\* crypto.subtle.digest rejects (in hashCredentials, or in
\* initializeMatrixFromHash itself)
DigestRejected(c) == c.pc = "digest" /\ Rejected(c, ErrDigest)

\* crypto.subtle.importKey rejects inside generateEncryptionKey
ImportKeyRejected(c) == c.pc = "importKey" /\ Rejected(c, ErrImportKey)

NextFail ==
  \/ \E inp \in ValidInputs : InitializeNoted(inp)
  \/ \E c \in InFlight : initializeMatrixHashed(c)
  \/ \E c \in InFlight : initializeMatrixFromHashDigested(c)
  \/ \E c \in InFlight : initializeMatrixKeyed(c)
  \/ \E c \in InFlight : initializeMatrixFromHashKeyed(c)
  \/ \E c \in InFlight : DigestRejected(c)
  \/ \E c \in InFlight : ImportKeyRejected(c)
  \/ CallIsMatrixReady
  \/ CallGetMatrixInfo
  \/ \E e \in Embeddings : CallTransformEmbedding(e)

SpecFail == Init /\ [][NextFail]_vars

(* --------------------------- EmbeddingService ------------------------- *)
ErrInitialize == "Failed to initialize embedding service"
ErrEngineNull == "Engine is null after initialization"
ErrGenerate == "Failed to generate embedding"

\* isReady()
isReady == engine # NULL /\ ~isInitializing

\* getStatus()
getStatus ==
  IF isInitializing THEN "initializing"
  ELSE IF engine # NULL THEN "ready"
  ELSE "uninitialized"

\* an initialize() that starts a load whenever there is no engine
initializeUnguarded ==
  IF engine # NULL
  THEN UNCHANGED <<engine, isInitializing, initPromise, loads>>
  ELSE /\ Len(loads) < MaxLoads
       /\ isInitializing' = TRUE
       /\ loads' = Append(loads, "loading")
       /\ initPromise' = Some(Len(loads) + 1)
       /\ UNCHANGED engine

\* initialize() up to its return or its await.  _doInitialize runs up to
\* its await on CreateMLCEngine inside the call: a load is in flight from
\* then on, and initPromise is the promise of that _doInitialize call.
initialize ==
  IF engine # NULL
  THEN UNCHANGED <<engine, isInitializing, initPromise, loads>>
  ELSE IF isInitializing /\ initPromise # NULL
  THEN UNCHANGED <<engine, isInitializing, initPromise, loads>>
  ELSE /\ Len(loads) < MaxLoads
       /\ isInitializing' = TRUE
       /\ loads' = Append(loads, "loading")
       /\ initPromise' = Some(Len(loads) + 1)
       /\ UNCHANGED engine

\* a call suspended at an await: on the promise of load number load (pc
\* "initialize"), or on engine.embeddings.create (pc "create")
Suspended(fn, pc, load, enablePrivacy) ==
  [fn |-> fn, pc |-> pc, load |-> load, enablePrivacy |-> enablePrivacy]

Waiting == BagToSet(pending)

\* embeddingService.initialize() is called.  With an engine the call
\* resolves; otherwise the caller waits for initPromise, the one it found
\* or the one it made.
CallInitialize ==
  /\ BagCardinality(pending) < MaxPending
  /\ initialize
  /\ IF engine # NULL
     THEN /\ last' = Step("EmbeddingService.initialize", NoArgs, Return(Void))
          /\ UNCHANGED pending
     ELSE /\ last' = Step("EmbeddingService.initialize", NoArgs,
                          Return([load |-> initPromise'[1]]))
          /\ pending' = Put(pending,
                            Suspended("initialize", "initialize",
                                      initPromise'[1], FALSE))
  /\ UNCHANGED <<session, calls, sinceClear, remembered, wire>>

\* _doInitialize resumes with the engine CreateMLCEngine resolved with
doInitializeLoaded(n) ==
  /\ loads[n] = "loading"
  /\ engine' = Some([load |-> n])
  /\ isInitializing' = FALSE
  /\ loads' = [loads EXCEPT ![n] = "fulfilled"]
  /\ last' = Step("EmbeddingService._doInitialize", [load |-> n], Return(Void))
  /\ UNCHANGED <<session, calls, sinceClear, remembered, wire, initPromise,
                 pending>>

\* a _doInitialize whose failure path leaves isInitializing as it is
doInitializeFailedNoFinally(n) ==
  /\ loads[n] = "loading"
  /\ engine' = NULL
  /\ loads' = [loads EXCEPT ![n] = "rejected"]
  /\ last' = Step("EmbeddingService._doInitialize", [load |-> n],
                  Throw(ErrInitialize))
  /\ UNCHANGED <<session, calls, sinceClear, remembered, wire, isInitializing,
                 initPromise, pending>>

\* CreateMLCEngine rejects: catch sets engine = null and throws, finally
\* sets isInitializing = false
doInitializeFailed(n) ==
  /\ loads[n] = "loading"
  /\ engine' = NULL
  /\ isInitializing' = FALSE
  /\ loads' = [loads EXCEPT ![n] = "rejected"]
  /\ last' = Step("EmbeddingService._doInitialize", [load |-> n],
                  Throw(ErrInitialize))
  /\ UNCHANGED <<session, calls, sinceClear, remembered, wire, initPromise,
                 pending>>

\* an initialize() caller resumes: the promise it waited for has settled
InitializeSettled(c) ==
  /\ c.fn = "initialize"
  /\ loads[c.load] # "loading"
  /\ pending' = Drop(pending, c)
  /\ last' = Step("EmbeddingService.initialize settled", [load |-> c.load],
                  IF loads[c.load] = "fulfilled" THEN Return(Void)
                  ELSE Throw(ErrInitialize))
  /\ UNCHANGED <<session, calls, sinceClear, remembered, wire, engine,
                 isInitializing, initPromise, loads>>

\* generateEmbedding(text, enablePrivacy) up to its first await: on
\* this.initialize() when there is no engine, else on embeddings.create
CallGenerateEmbedding(text, enablePrivacy) ==
  /\ BagCardinality(pending) < MaxPending
  /\ IF engine = NULL
     THEN /\ initialize
          /\ pending' = Put(pending,
                            Suspended("generateEmbedding", "initialize",
                                      initPromise'[1], enablePrivacy))
     ELSE /\ pending' = Put(pending,
                            Suspended("generateEmbedding", "create", 0,
                                      enablePrivacy))
          /\ UNCHANGED <<engine, isInitializing, initPromise, loads>>
  /\ last' = Step("EmbeddingService.generateEmbedding", [text |-> text],
                  Return([promise |-> "pending"]))
  /\ UNCHANGED <<session, calls, sinceClear, remembered, wire>>

\* generateEmbedding resumes after await this.initialize(): a rejection is
\* not caught (the await is before the try), then engine is tested again
GenerateEmbeddingInitialized(c) ==
  /\ c.fn = "generateEmbedding"
  /\ c.pc = "initialize"
  /\ loads[c.load] # "loading"
  /\ IF loads[c.load] = "rejected" \/ engine = NULL
     THEN /\ pending' = Drop(pending, c)
          /\ last' = Step("EmbeddingService.generateEmbedding settled",
                          [load |-> c.load],
                          Throw(IF loads[c.load] = "rejected"
                                THEN ErrInitialize ELSE ErrEngineNull))
     ELSE /\ pending' = Put(Drop(pending, c), [c EXCEPT !.pc = "create"])
          /\ last' = Step("continuation", [load |-> c.load], Return(Void))
  /\ UNCHANGED <<session, calls, sinceClear, remembered, wire, engine,
                 isInitializing, initPromise, loads>>

\* an embedding as the model returned it, not multiplied by any matrix
Raw(embedding) == [len |-> embedding.len, by |-> <<>>]

\* a generateEmbedding that falls back to the model's embedding when the
\* transformation throws
generateEmbeddingFallback(embedding, enablePrivacy) ==
  IF enablePrivacy /\ transformEmbedding(embedding).err = "none"
  THEN transformEmbedding(embedding)
  ELSE Return([vector |-> Raw(embedding)])

\* what generateEmbedding returns or throws once embeddings.create has
\* answered with embedding: the singleton's transformEmbedding is applied
\* inside the try, and catch wraps whatever it throws
generateEmbedding(embedding, enablePrivacy) ==
  IF enablePrivacy
  THEN IF transformEmbedding(embedding).err # "none" THEN Throw(ErrGenerate)
       ELSE transformEmbedding(embedding)
  ELSE Return([vector |-> Raw(embedding)])

\* embeddings.create resolves with embedding and the call settles
GenerateEmbeddingCreated(c, embedding) ==
  /\ c.fn = "generateEmbedding"
  /\ c.pc = "create"
  /\ pending' = Drop(pending, c)
  /\ last' = Step("EmbeddingService.generateEmbedding settled",
                  [generated |-> [embedding |-> embedding,
                                  enablePrivacy |-> c.enablePrivacy]],
                  generateEmbedding(embedding, c.enablePrivacy))
  /\ UNCHANGED <<session, calls, sinceClear, remembered, wire, engine,
                 isInitializing, initPromise, loads>>

\* embeddings.create rejects
GenerateEmbeddingCreateFailed(c) ==
  /\ c.fn = "generateEmbedding"
  /\ c.pc = "create"
  /\ pending' = Drop(pending, c)
  /\ last' = Step("EmbeddingService.generateEmbedding settled",
                  [load |-> c.load], Throw(ErrGenerate))
  /\ UNCHANGED <<session, calls, sinceClear, remembered, wire, engine,
                 isInitializing, initPromise, loads>>

NextEmbed ==
  \/ CallInitialize
  \/ \E n \in DOMAIN loads : doInitializeLoaded(n)
  \/ \E n \in DOMAIN loads : doInitializeFailed(n)
  \/ \E c \in Waiting : InitializeSettled(c)
  \/ \E p \in BOOLEAN : CallGenerateEmbedding(textHi, p)
  \/ \E c \in Waiting : GenerateEmbeddingInitialized(c)
  \/ \E c \in Waiting, e \in Embeddings : GenerateEmbeddingCreated(c, e)
  \/ \E c \in Waiting : GenerateEmbeddingCreateFailed(c)
  \/ AwaitedInitializeMatrix
  \/ \E c \in InFlight : initializeMatrixHashed(c)
  \/ \E c \in InFlight : initializeMatrixKeyed(c)
  \/ clearMatrix

SpecEmbed == Init /\ [][NextEmbed]_vars

(* ------------------------------ signing in ---------------------------- *)
ErrSignin == "Sign in failed"

\* AuthProvider.signin(email, password): the body apiClient.signin posts to
\* /api/auth/signin.  The function has two parameters; a third argument is
\* not read.
authSignin(email, password) == [email |-> email, password |-> password]

\* SignInPage.handleSubmit with the form holding email, password and
\* privacySeed; ok is whether the backend accepts the credentials.  On
\* success the token and the user are stored and the router moves to the
\* dashboard; nothing here touches the privacyTransformService singleton.
SignInSubmit(email, password, privacySeed, ok) ==
  /\ Cardinality(sent) < MaxSent
  /\ Post("AuthProvider.signin", NoString, authSignin(email, password))
  /\ last' = Step("SignInPage.handleSubmit",
                  [signin |-> [email |-> email, password |-> password,
                               privacySeed |-> privacySeed]],
                  IF ok THEN Return(Void) ELSE Throw(ErrSignin))
  /\ UNCHANGED <<session, calls, sinceClear, remembered, sealed, embedder>>

\* what is typed into the seed field of the form
SignInSeeds == {seed654321, seed123456, seedShort}

\* the dashboard session: signing in, the exported helpers of the singleton
\* (initializePrivacyMatrix, clearPrivacyMatrix, isPrivacyMatrixReady,
\* transformEmbedding)
NextSignIn ==
  \/ \E s \in SignInSeeds, ok \in BOOLEAN : SignInSubmit(alice, secret, s, ok)
  \/ AwaitedInitializeMatrix
  \/ \E c \in InFlight : initializeMatrixHashed(c)
  \/ \E c \in InFlight : initializeMatrixKeyed(c)
  \/ clearMatrix
  \/ CallIsMatrixReady
  \/ \E e \in Embeddings : CallTransformEmbedding(e)

SpecSignIn == Init /\ [][NextSignIn]_vars

(* ------------- the session's methods, the caller's array kept ---------- *)
\* a transformEmbedding that writes the product into the array it was given
TransformHeldInPlace(embedding) ==
  /\ last' = Step("transformEmbedding", embedding, transformEmbedding(embedding))
  /\ remembered' =
       Some([held |-> embedding,
             after |-> IF transformEmbedding(embedding).err = "none"
                       THEN transformEmbedding(embedding).val.vector
                       ELSE embedding])
  /\ UNCHANGED <<session, calls, sinceClear, wire, embedder>>

\* transformEmbedding(embedding) called with an array the caller holds on
\* to; after is that array once the call has returned or thrown.  The
\* method reads embedding.length and Array.from(embedding), and writes only
\* to its own transformed.
TransformHeld(embedding) ==
  /\ last' = Step("transformEmbedding", embedding, transformEmbedding(embedding))
  /\ remembered' = Some([held |-> embedding, after |-> embedding])
  /\ UNCHANGED <<session, calls, sinceClear, wire, embedder>>

\* every method of the session, as in Next
NextFrame ==
  \/ \E inp \in InitializeInputs :
       /\ inp.entry = "initializeMatrix"
       /\ initializeMatrix(inp.username, inp.password, inp.seed)
  \/ \E inp \in InitializeInputs :
       /\ inp.entry = "initializeMatrixFromHash"
       /\ initializeMatrixFromHash(inp.credentialsHash, inp.seed)
  \/ \E c \in InFlight : initializeMatrixHashed(c)
  \/ \E c \in InFlight : initializeMatrixFromHashDigested(c)
  \/ \E c \in InFlight : initializeMatrixKeyed(c)
  \/ \E c \in InFlight : initializeMatrixFromHashKeyed(c)
  \/ clearMatrix
  \/ CallIsMatrixReady
  \/ CallGetMatrixInfo
  \/ \E e \in Embeddings : TransformHeld(Raw(e))
  \/ \E t \in Texts, iv \in IVs : CallEncryptText(t, iv)
  \/ \E ct \in StoredCiphertexts : CallDecryptText(ct)

SpecFrame == Init /\ [][NextFrame]_vars

(* ------------------------------- claims ------------------------------- *)
\* exactly six characters, each one of '0'..'9'
SixAsciiDigits(s) == Len(s) = 6 /\ \A i \in 1..Len(s) : s[i] \in 48..57

InitializeOps == {"initializeMatrix", "initializeMatrixFromHash"}
GuardedOps == {"transformEmbedding", "encryptText", "decryptText"}

AllNull == matrix = NULL /\ encryptionKey = NULL /\ currentSeed = NULL

\* C1: in every observable state the session holds both the matrix and the
\* key, or neither.
C1_BothOrNeither == (matrix = NULL) <=> (encryptionKey = NULL)

\* C2: a transformEmbedding (of a 384-length input), encryptText or
\* decryptText made while isMatrixReady() is false fails with a
\* not-initialized error.  (The three only read the session, so
\* isMatrixReady() is the same before and after the call.)
C2_NotReadyRejects ==
  ( /\ last.op \in GuardedOps
    /\ ~isMatrixReady
    /\ (last.op = "transformEmbedding" => last.arg.len = 384) )
  => last.out.err \in NotInitializedErrors

\* C3: at most one initialize call, hence one digest / matrix build / key
\* import sequence, is in progress at any time.
C3_SingleDerivation == BagCardinality(calls) <= 1

\* C4: once a call that clearMatrix() overtook has finished, and until a
\* call issued after that clear completes, the session is uninitialized.
C4_ClearWins ==
  sinceClear = "stale call resolved" => (AllNull /\ ~isMatrixReady)

\* C5: whenever isMatrixReady() holds, the matrix, the key and currentSeed
\* all come from the FinalSeedHash of one initialize call.
C5_OneDerivation ==
  isMatrixReady =>
    \E inp \in ValidInputs :
      /\ matrix = Some(MatrixFor[SeedHashOf[inp]])
      /\ encryptionKey = Some(KeyMaterialFor[SeedHashOf[inp]])
      /\ currentSeed = Some(inp.seed)

\* C6: right after clearMatrix() returns, matrix, key and currentSeed are
\* null, isMatrixReady() is false, and transformEmbedding of a 384-length
\* input, encryptText and decryptText each raise the not-initialized error.
C6_ClearDrops ==
  last.op = "clearMatrix" =>
    /\ AllNull
    /\ ~isMatrixReady
    /\ \A e \in Embeddings :
         e.len = 384 => transformEmbedding(e).err \in NotInitializedErrors
    /\ \A t \in Texts, iv \in IVs : encryptText(t, iv).err \in NotInitializedErrors
    /\ \A ct \in StoredCiphertexts : decryptText(ct).err \in NotInitializedErrors

\* a clear that overtakes a call waiting for its key, on a session that
\* another call had made Ready
C6_Witness ==
  /\ last.op = "clearMatrix"
  /\ remembered # NULL
  /\ \E c \in InFlight : c.pc = "importKey"

\* C7: an initialize call whose seed is not exactly six ASCII digits
\* rejects with the seed error, starts no digest (no call is left in
\* flight) and leaves matrix, key and currentSeed as they were.
C7_BadSeedRejected ==
  [][ ( /\ last'.op \in InitializeOps
        /\ ~SixAsciiDigits(last'.arg.seed) )
      => ( /\ last'.out.err = ErrSeed
           /\ UNCHANGED <<matrix, encryptionKey, currentSeed, calls>> ) ]_vars

\* a bad seed rejected on a Ready session with another call in flight
C7_Witness ==
  /\ last.op \in InitializeOps
  /\ last.out.err = ErrSeed
  /\ isMatrixReady
  /\ calls # EmptyBag

C9_SeedValidator ==
  last.op \in {"validateSeed", "PrivacyTransformService.validateSeed",
               "VaultClient.initializePrivacy"}
    => (last.out.val.accepted <=> SixAsciiDigits(last.arg.seed))

\* six digits followed by a line feed, rejected
C9_Witness ==
  /\ last.op = "validateSeed"
  /\ last.arg.seed = seedNewline
  /\ last.out.val.accepted = FALSE

\* C10: transformEmbedding raises the dimension error for every input
\* whose length is not 384, whatever the session holds; on a Ready session
\* a 384-length input yields 384 values.  The demo's transformEmbedding
\* does the same for the matrix it is given.
C10_DimensionEnforced ==
  /\ last.op = "transformEmbedding" =>
       IF last.arg.len # 384 THEN last.out.err = ErrDimension
       ELSE isMatrixReady => (last.out.err = "none" /\ last.out.val.vector.len = 384)
  /\ last.op = "SimpleEmbeddingService.transformEmbedding" =>
       IF last.arg.len # 384 THEN last.out.err = ErrDimension
       ELSE last.out.err = "none" /\ last.out.val.vector.len = 384

\* a 385-length input refused on a Ready session
C10_Witness ==
  /\ last.op = "transformEmbedding"
  /\ last.arg.len = 385
  /\ isMatrixReady
  /\ last.out.err = ErrDimension

\* C11: decryptText of a kept encryptText result, under the key bytes it
\* was sealed with, returns exactly the text that was encrypted.
C11_RoundTrip ==
  last.op = "decryptText" =>
    \A s \in sealed :
      (s.data = last.arg.data /\ encryptionKey = Some(s.key))
        => last.out = Return([text |-> s.text])

\* the decoded bytes of a and b have one length and differ at one position
DiffersInOneByte(a, b) ==
  LET x == atob(a).bytes
      y == atob(b).bytes
  IN  /\ Len(x) = Len(y)
      /\ Cardinality({ i \in 1..Len(x) : x[i] # y[i] }) = 1

\* C12: decryptText of an input that differs in one byte from a kept
\* encryptText result, or of a kept result under a key other than the one
\* it was sealed with, raises an error and returns no text; with a key in
\* the session the error is the one crypto.subtle.decrypt rejects with.
C12_TamperRejected ==
  last.op = "decryptText" =>
    \A s \in sealed :
      ( \/ DiffersInOneByte(last.arg.data, s.data)
        \/ (last.arg.data = s.data /\ encryptionKey # Some(s.key)) )
      => ( /\ last.out.err # "none"
           /\ encryptionKey # NULL => last.out.err = ErrDecrypt )

\* a byte of the tag changed, the session still holding the sealing key
C12_Witness ==
  /\ last.op = "decryptText"
  /\ last.out.err = ErrDecrypt
  /\ \E s \in sealed :
       /\ encryptionKey = Some(s.key)
       /\ \E d \in TamperDeltas :
            last.arg.data = Tamper(s.data, Len(atob(s.data).bytes), d)

\* C13: when a row has zero norm at the moment Gram-Schmidt is about to
\* normalize it, the construction of the matrix fails with an error
\* instead of returning a matrix.
ZeroNormArises(m) == \E i \in DOMAIN m : m[i].nan

C14_NoPlaintextSent ==
  \A r \in sent :
    /\ r.body.text # r.entered
    /\ r.body.text # trim(r.entered)
    /\ \E k \in Keys, iv \in IVs :
         r.body.text \in {SealOf(k, iv, r.entered), SealOf(k, iv, trim(r.entered))}

\* C15: every state the seeded generator takes lies in 0 .. 233279, so
\* every value it returns is >= 0 and < 1, whatever the sign of the 32-bit
\* value folded from the seed string.
C15_GeneratorInRange ==
  matrix # NULL =>
    \A i \in DOMAIN matrix[1].fill :
      matrix[1].fill[i] >= 0 /\ matrix[1].fill[i] < LcgModulus

\* C17: for every seed hash the rows of the matrix that
\* generateOrthogonalMatrix returns are orthonormal: each row has norm 1
\* and any two distinct rows have dot product 0 (exactly so in the model,
\* hence within any tolerance).
UnitNorm(row) == ~row.nan /\ Mul(Dot(row.w, row.w), row.p) = row.q

Orthogonal(rowI, rowK) ==
  ~rowI.nan /\ ~rowK.nan /\ IsZero(Dot(rowI.w, rowK.w))

LowerHex == 48..57 \cup 97..102

ChainedString(inp) ==
  IF inp.entry = "initializeMatrix"
  THEN inp.username \o <<58>> \o inp.password \o <<58>> \o inp.seed
  ELSE inp.credentialsHash \o <<58>> \o inp.seed

ExpectedHash ==
  [inp \in { i : i \in ValidInputs } |->
     HexEncode(Sha256(Utf8Encode(ChainedString(inp))))]

ExpectedMatrix ==
  [inp \in { i : i \in ValidInputs } |->
     generateOrthogonalMatrix(MATRIX_SIZE, ExpectedHash[inp])]

ExpectedKey ==
  [inp \in { i : i \in ValidInputs } |-> generateEncryptionKey(ExpectedHash[inp])]

C18_OneSeedHash ==
  \A c \in InFlight :
    c.pc = "importKey" =>
      /\ c.seedHash = ExpectedHash[c.input]
      /\ Len(c.seedHash) = 2 * DigestBytes
      /\ \A i \in DOMAIN c.seedHash : c.seedHash[i] \in LowerHex
      /\ c.generated = Some(ExpectedMatrix[c.input])
      /\ c.keyMaterial = ExpectedKey[c.input]

C18_Witness ==
  \E c, d \in InFlight :
    /\ c.pc = "importKey" /\ c.input.entry = "initializeMatrix"
    /\ d.pc = "importKey" /\ d.input.entry = "initializeMatrixFromHash"

\* C19: the AES key material is exactly 32 bytes, the character codes of
\* the first 32 characters of the seed hash (not the bytes the hex string
\* spells); two seed hashes that agree on their first 32 characters derive
\* the same key.
KeyDerivations == {"generateEncryptionKey", "SimpleEmbeddingService.decryptText"}

C19_KeyFromHexCharacters ==
  last.op \in KeyDerivations =>
    LET h == last.arg.seedHashString
        key == last.out.val.keyMaterial
    IN  /\ Len(key) = 32
        /\ \A i \in 1..32 : key[i] = h[i]
        /\ \A g \in KeyHashes :
             (\A i \in 1..32 : g[i] = h[i]) => KeyTable[g] = key

C19_Witness ==
  /\ last.op = "generateEncryptionKey"
  /\ \E g \in KeyHashes :
       /\ g # last.arg.seedHashString
       /\ \A i \in 1..32 : g[i] = last.arg.seedHashString[i]
       /\ KeyTable[g] = last.out.val.keyMaterial

\* C20: across the encryptText calls made under one key, no two calls use
\* the same 12-byte IV.
C20_NoIvReuse ==
  \A s, t \in sealed : (s # t /\ s.key = t.key) => s.iv # t.iv

\* C20 as amended: every encryptText call uses as IV the 12 bytes that
\* getRandomValues returned to that call and puts them in front of its
\* output, so two calls under one key use the same IV only when the
\* generator returned the same bytes to both.
IvOf == [c \in { x : x \in Ciphertexts } |-> Take(atob(c).bytes, 12)]

C20_IvDrawnPerCall ==
  \A s \in sealed :
    /\ Len(s.iv) = 12
    /\ IvOf[s.data] = s.iv
    /\ \A t \in sealed : (s.key = t.key /\ s.iv # t.iv) => IvOf[s.data] # IvOf[t.data]

C20_Witness ==
  \E s, t \in sealed : s.key = t.key /\ s.iv # t.iv /\ s.text = t.text

\* an entry seed / divisor - 0.5 of a filled matrix, as the fraction
\* seed / divisor in lowest terms.  Two entries are the same double exactly
\* when these fractions are equal: distinct fractions with divisors up to
\* 2^31 are more than 2^-50 apart.
LowestTerms(seed, divisor) ==
  LET RECURSIVE Gcd(_, _)
      Gcd(a, b) == IF b = 0 THEN a ELSE Gcd(b, a % b)
      g == Gcd(divisor, IF seed < 0 THEN -seed ELSE seed)
  IN  <<seed \div g, divisor \div g>>

\* C21: for the same credentialsHash and seed, generatePrivacyMatrix of the
\* demo and initializeMatrixFromHash of the frontend fill the same matrix
\* before orthogonalization: entry by entry, in row-major order, the demo's
\* matrix equals the frontend's.
C21_SameFill ==
  last.op = "SimpleEmbeddingService.generatePrivacyMatrix" =>
    LET demo == last.out.val.matrix
        front == generateOrthogonalMatrix(
                   MATRIX_SIZE,
                   hashFromCredentialsHash(last.arg.demo.credentialsHash,
                                           last.arg.demo.seed))
    IN  /\ demo.rows = front.rows /\ demo.cols = front.cols
        /\ \A j \in 1..MaxFill :
             LowestTerms(demo.fill[j], DemoDivisor)
               = LowestTerms(front.fill[j], LcgModulus)

\* C22: on a VaultClient whose token carries a credentials_hash, once
\* initializePrivacy has resolved for a valid seed, a queryPreferences call
\* does not reject: its query request, carrying the transformed embedding,
\* is sent to the backend.
C22_QueryReachesBackend ==
  (/\ last.op = "VaultClient.queryPreferences"
   /\ isMatrixReady
   /\ currentSeed # NULL) =>
    /\ last.out.err = "none"
    /\ \E r \in sent :
         /\ r.path = "VaultClient.queryPreferences"
         /\ r.entered = last.arg.text
         /\ r.body.embedding.len = MATRIX_SIZE

VaultOps ==
  {"VaultClient.queryPreferences", "VaultClient.addPreference",
   "VaultClient.getTopPreferences"}

\* C29: a queryPreferences, addPreference or getTopPreferences call made
\* while the client's session is not Ready (matrix or key missing) rejects
\* with the not-initialized error and sends no request.
C29_NotReadySendsNothing ==
  [][(~isMatrixReady /\ last'.op \in VaultOps) =>
       (sent' = sent /\ last'.out.err = ErrPrivacyNotInit)]_vars

\* getTopPreferences was called between the two awaits of initializePrivacy,
\* with the matrix installed and the key not yet, and rejected
C29_Witness ==
  /\ last.op = "VaultClient.getTopPreferences"
  /\ last.out.err = ErrPrivacyNotInit
  /\ matrix # NULL
  /\ encryptionKey = NULL
  /\ sent = {}

\* C23: when the digest or the key import rejects during an initialize
\* call, the call rejects and matrix, encryptionKey and currentSeed are what
\* they were when the call was made.
C23_FailedInitializeChangesNothing ==
  last.op = "rejected" =>
    /\ last.out.err \in {ErrDigest, ErrImportKey}
    /\ remembered # NULL
    /\ session = remembered[1].before

InFlightLoads == { n \in DOMAIN loads : loads[n] = "loading" }

\* C27: at most one model load is in flight at any time; an initialize()
\* call made while a load is in flight starts none and waits for that
\* load; once the engine is set no further load is started.
C27_OneLoadInFlight ==
  [][/\ Cardinality(InFlightLoads') <= 1
     /\ (InFlightLoads # {} /\ last'.op = "EmbeddingService.initialize") =>
          /\ loads' = loads
          /\ \E n \in InFlightLoads : last'.out.val = [load |-> n]
     /\ engine # NULL => Len(loads') = Len(loads)]_vars

\* two callers wait for the one load in flight
C27_Witness ==
  /\ Cardinality(InFlightLoads) = 1
  /\ BagCardinality(pending) = 2
  /\ \A c \in Waiting : c.pc = "initialize" /\ c.load \in InFlightLoads

\* C28: when a model load fails, the service is back at engine = null and
\* isInitializing = false (getStatus() 'uninitialized', isReady() false),
\* every initialize() caller that waited for the load is rejected, and the
\* next initialize() call starts a new load.
C28_FailedLoadResets ==
  [][/\ (last'.op = "EmbeddingService._doInitialize"
           /\ last'.out.err # "none") =>
          /\ engine' = NULL /\ ~isInitializing'
          /\ getStatus' = "uninitialized" /\ ~isReady'
     /\ (last'.op = "EmbeddingService.initialize settled"
           /\ loads[last'.arg.load] = "rejected") =>
          last'.out.err = ErrInitialize
     /\ (last'.op = "EmbeddingService.initialize"
           /\ InFlightLoads = {} /\ engine = NULL) =>
          /\ Len(loads') = Len(loads) + 1
          /\ last'.out.val = [load |-> Len(loads')]
          /\ InFlightLoads' = {Len(loads')}]_vars

\* after a failed load an initialize() call has started the next one
C28_Witness ==
  /\ last.op = "EmbeddingService.initialize"
  /\ Len(loads) = 2
  /\ loads[1] = "rejected"
  /\ loads[2] = "loading"
  /\ initPromise = Some(2)

\* C24: after a successful sign-in with a valid 6-digit privacy seed the
\* shared privacy session is Ready, initialized from the credentials and
\* the seed that were entered.
C24_SignInMakesReady ==
  (/\ last.op = "SignInPage.handleSubmit"
   /\ last.out.err = "none"
   /\ validateSeed(last.arg.signin.privacySeed)) =>
    /\ isMatrixReady
    /\ currentSeed = Some(last.arg.signin.privacySeed)
    /\ matrix = Some(generateOrthogonalMatrix(
                       MATRIX_SIZE,
                       hashCredentials(last.arg.signin.email,
                                       last.arg.signin.password,
                                       last.arg.signin.privacySeed)))

ReadingOps ==
  {"transformEmbedding", "encryptText", "decryptText", "isMatrixReady",
   "getMatrixInfo"}

C30_ResultFromDataAlone ==
  last.op = "SimpleEmbeddingService.decryptText" =>
    /\ last.out.err = "none"
    /\ (/\ remembered # NULL
        /\ remembered[1].input.encryptedData = last.arg.sealedFor.encryptedData)
         => remembered[1].result = last.out
    /\ Open(Take(Utf8Encode(demoSeedHashString), KeyBytes),
            last.arg.sealedFor.encryptedData).err # "none"
         => last.out.val.text = last.arg.sealedFor.encryptedData

\* two calls with the same data and with different credentials hashes and
\* seeds have both resolved with the decrypted text
C30_Witness ==
  /\ last.op = "SimpleEmbeddingService.decryptText"
  /\ remembered # NULL
  /\ remembered[1].input.encryptedData = last.arg.sealedFor.encryptedData
  /\ remembered[1].input.credentialsHash # last.arg.sealedFor.credentialsHash
  /\ remembered[1].input.seed # last.arg.sealedFor.seed
  /\ last.out.val.text = textHi
  /\ remembered[1].result.val.text = textHi

====
